---- MODULE Spec2Model ----
(***************************************************************************)
(* State-machine model of the globe visualisation front-end:               *)
(*   - UI state (enabledCountries, activeCategory) and its click handlers  *)
(*     (js/ui/ui.js),                                                      *)
(*   - the continuous "airplane" flight choreography with its start timer, *)
(*     frame callback and input-interruption listeners                     *)
(*     (animations module),                                                *)
(*   - the loading intro's timers, readiness poll, reveal intervals and    *)
(*     arc fade-in,                                                        *)
(*   - generateConnections with its pair loop and post-pass,               *)
(*   - updateVisualization with its two timers, the regeneration interval  *)
(*     (js/main.js) and the orbiter registry (js/astronauts).              *)
(* Browser primitives are modelled by what the handlers observe of them:   *)
(* pending timeouts, scheduled frame callbacks, registered listeners.      *)
(***************************************************************************)
EXTENDS Integers, Sequences, FiniteSets, TLC

\* ------------------------------------------------------------------ bounds
\* Number of flight closures (startAirplaneFlight activations) that may be
\* alive at the same time: pending, running, or still owning listeners.
MaxSessions == 2

\* Number of initial connections handed to the loading intro.
MaxArcs == 1

\* Number of updateVisualization calls whose 600/700 ms timers may be pending
\* at the same time.
MaxUpdates == 1

\* Number of orbit pivots that may exist at the same time.
MaxPivots == 2

\* showCountryInfo timers that may be pending together.
MaxHideTimers == 2

\* ------------------------------------------------------------------ values
Null == "null"       \* activeCategory = null
NoId == 0            \* animationFrameId = null
NoSession == 0       \* airplaneFlightInterval = null
NoListeners == << >> \* userInteractionListeners = null (the array is never left empty)

Sessions == 1..MaxSessions

Off == -1            \* an interval that is not scheduled
Tiny == -1           \* arcOpacityMultiplier = 0.001, its value at load
FadeSteps == 2       \* the fade-in progress is counted in halves

InputEvents == {"mousedown", "touchstart", "wheel"}

\* initializeGlobe 77: the camera starts at altitude 2.5.
GlobeAltitude == 25

\* startAirplaneFlight 125: const initialAltitude = 1.3.
initialAltitude == 13

\* animateCategorySelection 74-90: the altitudes of the region views.
regionViews == [ latin_america |-> 22, europe |-> 18, africa |-> 20 ]

\* The altitude a wheel event zooms the camera out to.
ZoomAltitudes == {30}

Pivots == 1..MaxPivots

\* addOrbitingAstronaut 145: speed = 1.0 + Math.random() * 0.5, in tenths.
Speeds == {10, 14}

\* The arguments a caller may pass in place of the globe and of THREE.
Deps == [globe : BOOLEAN, THREE : BOOLEAN, template : {"group", "null", "throws"}]

\* main.js 76: addOrbitingAstronaut(c, myGlobe, THREE, getPointSize)
ProgramDeps == [globe |-> TRUE, THREE |-> TRUE, template |-> "group"]

\* ----------------------------------------------------------------- dataset
\* js/data/countries.js: ordered list of {name, count, coordinates} records;
\* the coordinates are in whole degrees.
Country(n, c, lat, lng) ==
    [name |-> n, count |-> c, coordinates |-> [lat |-> lat, lng |-> lng]]

Datasets ==
    { << Country("USA", 5, 39, -98),
         Country("Canada", 1, 56, -106),
         Country("Mexico", 1, 23, -102) >>,
      << Country("Brazil", 12, -14, -51),
         Country("France", 3, 46, 2) >> }

\* Datasets handed to generateConnections on its own: those above, and two
\* with countries on both sides of the Pacific, in either order.
GenDatasets ==
    Datasets \cup
    { << Country("Chile", 4, -35, -71),
         Country("Japan", 1, 36, 138),
         Country("Australia", 2, -25, 133),
         Country("Fiji", 1, -18, 178) >>,
      << Country("Japan", 1, 36, 138),
         Country("Peru", 2, -10, -76),
         Country("Samoa", 1, -14, -172) >> }

\* A name that is in no dataset.
Unlisted == "Atlantis"

\* A record without a name.
Unnamed == Country("", 1, 0, 0)

VARIABLES
    countryData,               \* the dataset (never mutated)
    enabledCountries,          \* ui.js: set of enabled country names
    activeCategory,            \* ui.js: category id or Null
    autoRotate,                \* globe.controls().autoRotate
    airplaneFlightInterval,    \* animations: NoSession or the closure whose cancel() it holds
    userInteractionListeners,  \* animations: NoListeners or sequence of [event, handler]
    animationFrameId,          \* per flight closure: id of its scheduled animate callback
    flightTimers,              \* pending 1600 ms start timers, in creation order
    frameCallbacks,            \* browser: ids of scheduled animate callbacks
    canvasListeners,           \* browser: <<event, handler>> pairs registered on the canvas
    povTransition,             \* duration of the camera transition in progress (0: none)
    povAltitude,               \* altitude that transition ends at, in tenths (0: none)
    altitude,                  \* globe.pointOfView().altitude, in tenths
    countryInfoOverlay,        \* ui.js: the country info overlay carries the class show
    hideTimers,                \* ui.js: number of pending 2000 ms timers of showCountryInfo
    lastOp,                    \* the handler that ran last, with its argument
    effects,                   \* external calls issued by that handler, in order
    logoTimer,                 \* intro: the 1000 ms timer is pending
    loadingTimers,             \* intro: pending timers of startTransition, in due order
    loadingScreen,             \* intro: "shown", "fade-out" or "hidden"
    uiPanels,                  \* intro: the panels carry ui-fade-in
    tooltipEnabled,            \* intro: loading-disabled has been removed
    pointsInterval,            \* intro: index of the point-reveal interval (Off: not scheduled)
    arcsInterval,              \* intro: index of the arc-reveal interval (Off: not scheduled)
    arcsDataLength,            \* intro: number of connections the arc reveal was handed
    fadeFrame,                 \* intro: the arc fade-in frame callback is scheduled
    arcOpacityMultiplier,      \* config: global arc opacity, in steps of 1/FadeSteps (Tiny: 0.001)
    rebindTimer,               \* intro: the 10 ms timer that re-binds the arcs is pending
    currentData,               \* intro: the arcs that timer captured
    globeReady,                \* intro: the flag checkGlobeReady sets
    pollTimer,                 \* intro: the 100 ms timer of checkGlobeReady is pending
    quickCheck,                \* intro: the 100 ms quickCheck interval is scheduled
    rendererReady,             \* globe.renderer() returns the renderer
    connections,               \* main.js: the generateConnections call whose result it holds
    returned,                  \* the value returned by the call under test
    args,                      \* the arguments of the pure function under test
    pointsData,                \* globe: names of the records bound as points, in order
    arcsData,                  \* globe: the generateConnections call whose result is bound as arcs
    vizTimers,                 \* pending 600/700 ms timers of updateVisualization, oldest first
    astronautOrbiters,         \* astronauts.js: the registry, as its set of entries
    scene,                     \* globe.scene(): the pivots attached to it
    sceneAvailable,            \* globe.scene() returns the scene
    regenerationInterval,      \* main.js: the 8000 ms interval is scheduled
    orbitersLoop,              \* astronauts.js: the frame callback of orbitersLoop is scheduled
    stopRequested              \* history: what asked the flight to end since lone_wolf was last selected

flightVars == << enabledCountries, activeCategory, autoRotate,
                 airplaneFlightInterval, userInteractionListeners, animationFrameId,
                 flightTimers, frameCallbacks, canvasListeners, povTransition,
                 povAltitude, altitude >>

introVars == << logoTimer, loadingTimers, loadingScreen, uiPanels, tooltipEnabled,
                pointsInterval, arcsInterval, arcsDataLength, fadeFrame,
                arcOpacityMultiplier, rebindTimer, currentData, globeReady,
                pollTimer, quickCheck, rendererReady >>

vizVars == << connections, returned, args, pointsData, arcsData, vizTimers,
             astronautOrbiters, scene, sceneAvailable, regenerationInterval,
             orbitersLoop, countryInfoOverlay, hideTimers >>

vars == << countryData, flightVars, introVars, vizVars, lastOp, effects,
           stopRequested >>

\* ----------------------------------------------------------------- helpers
Range(s) == { s[i] : i \in 1..Len(s) }

Names(data) == { data[i].name : i \in 1..Len(data) }

\* categories.js: member lists of the categories.
categories(data) ==
    [ lone_wolf |->
        LET IsLone(c) == c.count = 1
            lone == SelectSeq(data, IsLone)
        IN  [ i \in 1..Len(lone) |-> lone[i].name ],
      latin_america |->
        << "Argentina", "Brazil", "Chile", "Colombia", "Costa Rica",
           "Dominican Republic", "Ecuador", "El Salvador", "Guatemala",
           "Honduras", "Mexico", "Nicaragua", "Panama", "Paraguay", "Peru",
           "Uruguay", "Venezuela" >>,
      europe |->
        << "Armenia", "Bosnia & Herzegovina", "Bulgaria", "Croatia", "Cyprus",
           "Denmark", "France", "Georgia", "Germany", "Greece", "Hungary",
           "Ireland", "Italy", "Latvia", "Lithuania", "Netherlands",
           "North Macedonia", "Norway", "Poland", "Portugal", "Romania",
           "Russian Federation", "Serbia", "Slovenia", "Spain", "Sweden",
           "Turkey", "Ukraine", "United Kingdom" >>,
      africa |->
        << "Egypt", "Ghana", "Kenya", "Libya", "Mauritius", "Morocco",
           "Nigeria", "South Africa", "Tunisia" >> ]

CategoryIds == {"lone_wolf", "latin_america", "europe", "africa"}

\* Variant of validCountries: the member list is taken as it is, without the
\* lookup in the dataset.
validCountries_NoFilter(data, categoryId) == categories(data)[categoryId]

\* ui.js 129-131: categoryData.countries.filter(name => countryData.some(...))
validCountries(data, categoryId) ==
    LET InData(n) == \E i \in 1..Len(data) : data[i].name = n
    IN  SelectSeq(categories(data)[categoryId], InData)

\* startAirplaneFlight 111: countryData.filter(c => c.count === 1)
loneWolfCountries(data) ==
    LET IsLone(c) == c.count = 1
    IN  SelectSeq(data, IsLone)

\* ------------------------------------------------ the connection generator
Abs(x) == IF x < 0 THEN -x ELSE x

\* Longitudes and latitudes at and beside the edges of the bands of
\* isTransPacificRoute 25-27.
RouteLngs == {-180, -121, -120, -30, -29, 0, 94, 95, 109, 110, 180}

RouteLats == {-90, -51, -50, -10, -9, 90}

\* Points handed to calculateDistance, in whole degrees.
DistanceLats == {-90, -35, 0, 36, 90}

DistanceLngs == {-180, -71, 0, 138, 180}

\* Math.sin in fixed point: Scale times the sine of h half-degrees, by
\* Bhaskara's formula on [0, 180] degrees; the sine is odd.
Scale == 1000

RECURSIVE Sin(_)
Sin(h) ==
    IF h < 0 THEN -Sin(-h)
    ELSE IF h > 360 THEN -Sin(h - 360)
    ELSE (Scale * 4 * h * (360 - h)) \div (162000 - h * (360 - h))

\* Math.cos of a latitude in whole degrees.
Cos(lat) == Sin(2 * (90 - lat))

\* Scale^2 times the haversine of k degrees, for k in 0..180.
Haversine(k) == Sin(k) * Sin(k)

\* The largest angle in lo..hi, in whole degrees, whose haversine is at
\* most a (the haversine grows with the angle), found by bisection.
RECURSIVE AngleBetween(_, _, _)
AngleBetween(a, lo, hi) ==
    IF lo = hi THEN lo
    ELSE LET mid == (lo + hi + 1) \div 2
         IN  IF Haversine(mid) <= a
             THEN AngleBetween(a, mid, hi)
             ELSE AngleBetween(a, lo, mid - 1)

\* calculateDistance 17: c = 2 * atan2(sqrt(a), sqrt(1 - a)), the angle
\* whose haversine is a, in whole degrees.
CentralAngle(a) == AngleBetween(a, 0, 180)

\* Variant of calculateDistance: the cosine of lat1 is taken twice.
calculateDistance_OneCosine(lat1, lng1, lat2, lng2) ==
    LET dLat == lat2 - lat1
        dLng == lng2 - lng1
        a == Sin(dLat) * Sin(dLat)
             + (((Cos(lat1) * Cos(lat1)) \div Scale) * (Sin(dLng) * Sin(dLng))) \div Scale
    IN  (6371 * CentralAngle(a) * 349) \div 20000

\* calculateDistance 10-19, in whole kilometres: the half angles dLat/2
\* and dLng/2 are dLat and dLng half-degrees, and R * c is 6371 km times
\* the angle times pi/180 (349/20000).
calculateDistance(lat1, lng1, lat2, lng2) ==
    LET dLat == lat2 - lat1
        dLng == lng2 - lng1
        a == Sin(dLat) * Sin(dLat)
             + (((Cos(lat1) * Cos(lat2)) \div Scale) * (Sin(dLng) * Sin(dLng))) \div Scale
    IN  (6371 * CentralAngle(a) * 349) \div 20000

\* Variant of isTransPacificRoute: only routes that leave Latin America.
isTransPacificRoute_OneWay(startLng, endLng, startLat, endLat) ==
    LET isLatinAmerica(lng) == lng >= -120 /\ lng <= -30
        isAsia(lng) == lng >= 95 /\ lng <= 180
        isOceania(lng) == lng >= 110 /\ lng <= 180 /\ endLat >= -50 /\ endLat <= -10
    IN  isLatinAmerica(startLng) /\ (isAsia(endLng) \/ isOceania(endLng))

\* Variant of isTransPacificRoute: the Asia band is left out of the
\* destination test.
isTransPacificRoute_OceaniaOnly(startLng, endLng, startLat, endLat) ==
    LET isLatinAmerica(lng) == lng >= -120 /\ lng <= -30
        isAsia(lng) == lng >= 95 /\ lng <= 180
        isOceania(lng) == lng >= 110 /\ lng <= 180 /\ endLat >= -50 /\ endLat <= -10
    IN  \/ isLatinAmerica(startLng) /\ isOceania(endLng)
        \/ (isAsia(startLng) \/ isOceania(startLng)) /\ isLatinAmerica(endLng)

\* isTransPacificRoute 24-35; isOceania reads endLat for either longitude.
isTransPacificRoute(startLng, endLng, startLat, endLat) ==
    LET isLatinAmerica(lng) == lng >= -120 /\ lng <= -30
        isAsia(lng) == lng >= 95 /\ lng <= 180
        isOceania(lng) == lng >= 110 /\ lng <= 180 /\ endLat >= -50 /\ endLat <= -10
        fromLatAm == isLatinAmerica(startLng)
        toAsiaPacific == isAsia(endLng) \/ isOceania(endLng)
        fromAsiaPacific == isAsia(startLng) \/ isOceania(startLng)
        toLatAm == isLatinAmerica(endLng)
    IN  (fromLatAm /\ toAsiaPacific) \/ (fromAsiaPacific /\ toLatAm)

\* generateConnections 44: countryData.filter(c => enabledCountriesSet.has(c.name))
activeCountries(data, enabledSet) ==
    LET IsEnabled(c) == c.name \in enabledSet
    IN  SelectSeq(data, IsEnabled)

\* Variant of pairConnection: the longitude is unwrapped by half a turn.
pairConnection_HalfTurn(country1, country2, category) ==
    LET lng1 == country1.coordinates.lng
        lng2 == country2.coordinates.lng
        isTransPacific == isTransPacificRoute(lng1, lng2, country1.coordinates.lat,
                                              country2.coordinates.lat)
        startLng == IF isTransPacific /\ lng1 < 0 /\ lng2 > 0 /\ Abs(lng2 - lng1) > 180
                    THEN lng1 - 180
                    ELSE lng1
        endLng == IF isTransPacific /\ lng1 > 0 /\ lng2 < 0 /\ Abs(lng1 - lng2) > 180
                  THEN lng2 - 180
                  ELSE lng2
    IN  [ startLat |-> country1.coordinates.lat, startLng |-> startLng,
          endLat |-> country2.coordinates.lat, endLng |-> endLng,
          startCountry |-> country1.name, endCountry |-> country2.name,
          startCount |-> country1.count, endCount |-> country2.count,
          distance |-> calculateDistance(country1.coordinates.lat, lng1,
                                         country2.coordinates.lat, lng2),
          category |-> category ]

\* generateConnections 106-145: the record pushed for a pair that connects,
\* with the longitudes unwrapped on a trans-Pacific route.  (The colour
\* field is not carried.)
pairConnection(country1, country2, category) ==
    LET lng1 == country1.coordinates.lng
        lng2 == country2.coordinates.lng
        isTransPacific == isTransPacificRoute(lng1, lng2, country1.coordinates.lat,
                                              country2.coordinates.lat)
        startLng == IF isTransPacific /\ lng1 < 0 /\ lng2 > 0 /\ Abs(lng2 - lng1) > 180
                    THEN (IF lng1 < -150 THEN lng1 ELSE lng1 - 360)
                    ELSE lng1
        endLng == IF isTransPacific /\ lng1 > 0 /\ lng2 < 0 /\ Abs(lng1 - lng2) > 180
                  THEN (IF lng2 < -150 THEN lng2 ELSE lng2 - 360)
                  ELSE lng2
    IN  [ startLat |-> country1.coordinates.lat, startLng |-> startLng,
          endLat |-> country2.coordinates.lat, endLng |-> endLng,
          startCountry |-> country1.name, endCountry |-> country2.name,
          startCount |-> country1.count, endCount |-> country2.count,
          distance |-> calculateDistance(country1.coordinates.lat, lng1,
                                         country2.coordinates.lat, lng2),
          category |-> category ]

\* generateConnections 164-177: the record pushed for an isolated country.
forcedConnection(isolatedCountry, partner, category) ==
    [ startLat |-> isolatedCountry.coordinates.lat,
      startLng |-> isolatedCountry.coordinates.lng,
      endLat |-> partner.coordinates.lat, endLng |-> partner.coordinates.lng,
      startCountry |-> isolatedCountry.name, endCountry |-> partner.name,
      startCount |-> isolatedCountry.count, endCount |-> partner.count,
      distance |-> calculateDistance(isolatedCountry.coordinates.lat,
                                     isolatedCountry.coordinates.lng,
                                     partner.coordinates.lat, partner.coordinates.lng),
      category |-> category ]

\* initializeGlobe 98-106: the arcAltitude accessor, in hundredths.
arcAltitude(d) ==
    IF isTransPacificRoute(d.startLng, d.endLng, d.startLat, d.endLat) THEN 30
    ELSE IF d.distance > 10000 THEN 40
    ELSE IF d.distance > 5000 THEN 25
    ELSE IF d.distance > 2000 THEN 15
    ELSE 8

\* generateConnections 54-152: the pair loop from (i, j) on.  shouldConnect
\* is the set of index pairs for which randomValue < probability came out
\* true: randomValue hashes the names and coordinates, probability adds
\* Math.random() and a term in Date.now().
RECURSIVE pairLoop(_, _, _, _, _)
pairLoop(active, i, j, shouldConnect, category) ==
    IF i > Len(active) THEN << >>
    ELSE IF j > Len(active) THEN pairLoop(active, i + 1, i + 2, shouldConnect, category)
    ELSE (IF << i, j >> \in shouldConnect
          THEN << pairConnection(active[i], active[j], category) >>
          ELSE << >>)
         \o pairLoop(active, i, j + 1, shouldConnect, category)

\* generateConnections 50-51, 148-150: the number of connections that touch
\* the country after the pair loop.
countryConnections(conns, name) ==
    Cardinality({ k \in 1..Len(conns) :
                    conns[k].startCountry = name \/ conns[k].endCountry = name })

\* generateConnections 155: the countries the pair loop left alone.
isolatedCountries(active, conns) ==
    LET IsIsolated(c) == countryConnections(conns, c.name) = 0
    IN  SelectSeq(active, IsIsolated)

\* generateConnections 156-181: the forced connections of the isolated
\* countries from the k-th on; randomIndex[k] is the index drawn for it.
RECURSIVE postPass(_, _, _, _, _)
postPass(active, isolated, k, randomIndex, category) ==
    IF k > Len(isolated) THEN << >>
    ELSE LET isolatedCountry == isolated[k]
             IsOther(c) == c.name # isolatedCountry.name
             potentialPartners == SelectSeq(active, IsOther)
         IN  (IF Len(potentialPartners) > 0
              THEN << forcedConnection(isolatedCountry,
                                       potentialPartners[randomIndex[k]], category) >>
              ELSE << >>)
             \o postPass(active, isolated, k + 1, randomIndex, category)

\* Variant of generateConnections: the partner of an isolated country is
\* drawn among all the active countries, itself included.
generateConnections_AnyPartner(data, enabledSet, category, shouldConnect, randomIndex) ==
    LET active == activeCountries(data, enabledSet)
        conns == pairLoop(active, 1, 2, shouldConnect, category)
        isolated == isolatedCountries(active, conns)
    IN  conns \o [ k \in 1..Len(isolated) |->
                     forcedConnection(isolated[k], active[randomIndex[k]], category) ]

\* Variant of generateConnections: the post-pass is left out.
generateConnections_NoPostPass(data, enabledSet, category, shouldConnect, randomIndex) ==
    pairLoop(activeCountries(data, enabledSet), 1, 2, shouldConnect, category)

\* Variant of generateConnections: the partner of an isolated country is
\* drawn among the other countries of the whole dataset.
generateConnections_PartnerFromDataset(data, enabledSet, category, shouldConnect, randomIndex) ==
    LET active == activeCountries(data, enabledSet)
        conns == pairLoop(active, 1, 2, shouldConnect, category)
        isolated == isolatedCountries(active, conns)
        others(k) == LET IsOther(c) == c.name # isolated[k].name
                     IN  SelectSeq(data, IsOther)
    IN  conns \o [ k \in 1..Len(isolated) |->
                     forcedConnection(isolated[k], others(k)[randomIndex[k]], category) ]

\* Variant of generateConnections: the pair loop pushes every connection in
\* both directions.
generateConnections_BothWays(data, enabledSet, category, shouldConnect, randomIndex) ==
    LET active == activeCountries(data, enabledSet)
        conns == pairLoop(active, 1, 2, shouldConnect, category)
        back == [ k \in 1..Len(conns) |->
                    [conns[k] EXCEPT !.startCountry = conns[k].endCountry,
                                     !.endCountry = conns[k].startCountry] ]
    IN  conns \o back
        \o postPass(active, isolatedCountries(active, conns), 1, randomIndex, category)

\* Variant of generateConnections: the post-pass runs twice.
generateConnections_PostPassTwice(data, enabledSet, category, shouldConnect, randomIndex) ==
    LET active == activeCountries(data, enabledSet)
        conns == pairLoop(active, 1, 2, shouldConnect, category)
        forced == postPass(active, isolatedCountries(active, conns), 1, randomIndex,
                           category)
    IN  conns \o forced \o forced

\* generateConnections 40-187, for the given outcomes of its draws.
generateConnections(data, enabledSet, category, shouldConnect, randomIndex) ==
    LET active == activeCountries(data, enabledSet)
        conns == pairLoop(active, 1, 2, shouldConnect, category)
    IN  conns \o postPass(active, isolatedCountries(active, conns), 1, randomIndex,
                          category)

\* The outcomes of the draws of one call on n active countries: any set of
\* pairs connects, and each of the m isolated countries draws an index among
\* the others.
PairDraws(n) == SUBSET { p \in (1..n) \X (1..n) : p[1] < p[2] }

IndexDraws(m, n) == [ 1..m -> 1..(IF n > 1 THEN n - 1 ELSE 1) ]

\* ---------------------------------------------------------------- world
\* The handlers are sequences of calls over the module-level state; each
\* function is an operator from a record of that state to the record after
\* the call.
World ==
    [ enabledCountries |-> enabledCountries,
      activeCategory |-> activeCategory,
      autoRotate |-> autoRotate,
      airplaneFlightInterval |-> airplaneFlightInterval,
      userInteractionListeners |-> userInteractionListeners,
      animationFrameId |-> animationFrameId,
      flightTimers |-> flightTimers,
      frameCallbacks |-> frameCallbacks,
      canvasListeners |-> canvasListeners,
      povTransition |-> povTransition,
      povAltitude |-> povAltitude,
      altitude |-> altitude,
      countryInfoOverlay |-> countryInfoOverlay,
      hideTimers |-> hideTimers,
      logoTimer |-> logoTimer,
      loadingTimers |-> loadingTimers,
      loadingScreen |-> loadingScreen,
      uiPanels |-> uiPanels,
      tooltipEnabled |-> tooltipEnabled,
      pointsInterval |-> pointsInterval,
      arcsInterval |-> arcsInterval,
      arcsDataLength |-> arcsDataLength,
      fadeFrame |-> fadeFrame,
      arcOpacityMultiplier |-> arcOpacityMultiplier,
      rebindTimer |-> rebindTimer,
      currentData |-> currentData,
      globeReady |-> globeReady,
      pollTimer |-> pollTimer,
      quickCheck |-> quickCheck,
      rendererReady |-> rendererReady,
      connections |-> connections,
      returned |-> returned,
      args |-> args,
      pointsData |-> pointsData,
      arcsData |-> arcsData,
      vizTimers |-> vizTimers,
      astronautOrbiters |-> astronautOrbiters,
      scene |-> scene,
      sceneAvailable |-> sceneAvailable,
      regenerationInterval |-> regenerationInterval,
      orbitersLoop |-> orbitersLoop,
      effects |-> << >> ]

\* A flight session is in progress: its start timer is pending or its frame
\* loop is scheduled.
FlightInProgress == flightTimers # << >> \/ frameCallbacks # {}

\* History of the requests to end the flight, reset by a lone_wolf selection.
StopRequestedAfter(op) ==
    IF op = << "selectCategory", "lone_wolf" >> THEN {}
    ELSE IF op = << "deselectCategory", "lone_wolf" >>
         THEN stopRequested \cup {"deselect"}
    ELSE IF op[1] = "canvasInput" /\ FlightInProgress
         THEN stopRequested \cup {"input"}
    ELSE stopRequested

Commit(w, op) ==
    /\ enabledCountries' = w.enabledCountries
    /\ activeCategory' = w.activeCategory
    /\ autoRotate' = w.autoRotate
    /\ airplaneFlightInterval' = w.airplaneFlightInterval
    /\ userInteractionListeners' = w.userInteractionListeners
    /\ animationFrameId' = w.animationFrameId
    /\ flightTimers' = w.flightTimers
    /\ frameCallbacks' = w.frameCallbacks
    /\ canvasListeners' = w.canvasListeners
    /\ povTransition' = w.povTransition
    /\ povAltitude' = w.povAltitude
    /\ altitude' = w.altitude
    /\ countryInfoOverlay' = w.countryInfoOverlay
    /\ hideTimers' = w.hideTimers
    /\ logoTimer' = w.logoTimer
    /\ loadingTimers' = w.loadingTimers
    /\ loadingScreen' = w.loadingScreen
    /\ uiPanels' = w.uiPanels
    /\ tooltipEnabled' = w.tooltipEnabled
    /\ pointsInterval' = w.pointsInterval
    /\ arcsInterval' = w.arcsInterval
    /\ arcsDataLength' = w.arcsDataLength
    /\ fadeFrame' = w.fadeFrame
    /\ arcOpacityMultiplier' = w.arcOpacityMultiplier
    /\ rebindTimer' = w.rebindTimer
    /\ currentData' = w.currentData
    /\ globeReady' = w.globeReady
    /\ pollTimer' = w.pollTimer
    /\ quickCheck' = w.quickCheck
    /\ rendererReady' = w.rendererReady
    /\ connections' = w.connections
    /\ returned' = w.returned
    /\ args' = w.args
    /\ pointsData' = w.pointsData
    /\ arcsData' = w.arcsData
    /\ vizTimers' = w.vizTimers
    /\ astronautOrbiters' = w.astronautOrbiters
    /\ scene' = w.scene
    /\ sceneAvailable' = w.sceneAvailable
    /\ regenerationInterval' = w.regenerationInterval
    /\ orbitersLoop' = w.orbitersLoop
    /\ effects' = w.effects
    /\ lastOp' = op
    /\ stopRequested' = StopRequestedAfter(op)
    /\ UNCHANGED countryData

Log(w, call) == [w EXCEPT !.effects = Append(@, call)]

\* ------------------------------------------------------------- the flight
\* A flight closure is alive while anything can still reach it.
LiveSessions(w) ==
    Range(w.flightTimers)
    \cup { s \in Sessions : w.animationFrameId[s] # NoId }
    \cup { l[2] : l \in w.canvasListeners }
    \cup (IF w.airplaneFlightInterval = NoSession THEN {} ELSE {w.airplaneFlightInterval})
    \cup { w.userInteractionListeners[i].handler :
             i \in 1..Len(w.userInteractionListeners) }

FreeSessions(w) == Sessions \ LiveSessions(w)

NewSession(w) == CHOOSE s \in FreeSessions(w) : \A t \in FreeSessions(w) : s <= t

\* startAirplaneFlight 213-218: the cancel closure of session s.
cancel(w, s) ==
    IF w.animationFrameId[s] # NoId
    THEN Log([w EXCEPT !.frameCallbacks = @ \ {w.animationFrameId[s]},
                       !.animationFrameId[s] = NoId],
             "cancelAnimationFrame")
    ELSE w

\* stopAirplaneFlight 14-31
stopAirplaneFlight(w) ==
    LET w1 == IF w.airplaneFlightInterval # NoSession
              THEN [cancel(w, w.airplaneFlightInterval)
                      EXCEPT !.airplaneFlightInterval = NoSession]
              ELSE w
        uil == w1.userInteractionListeners
        w2 == IF uil # NoListeners
              THEN Log([w1 EXCEPT
                          !.canvasListeners =
                              @ \ { <<uil[i].event, uil[i].handler>> : i \in 1..Len(uil) },
                          !.userInteractionListeners = NoListeners],
                       "removeEventListener")
              ELSE w1
    IN  w2

\* setupUserInteractionDetection 229-256, run by session s: the handler it
\* registers is identified by s.
setupUserInteractionDetection(w, s) ==
    LET listeners == << [event |-> "mousedown", handler |-> s],
                        [event |-> "touchstart", handler |-> s],
                        [event |-> "wheel", handler |-> s] >>
    IN  Log([w EXCEPT
               !.userInteractionListeners = listeners,
               !.canvasListeners =
                   @ \cup { <<listeners[i].event, listeners[i].handler>> : i \in 1..3 }],
            "addEventListener")

\* startAirplaneFlight 110-224, the synchronous part: the initial camera
\* transition and the 1600 ms timer of a fresh closure.
startAirplaneFlight(w, data) ==
    IF Len(loneWolfCountries(data)) = 0
    THEN w
    ELSE LET s == NewSession(w)
             w1 == Log([w EXCEPT !.povTransition = 1500,
                                   !.povAltitude = initialAltitude],
                       "pointOfView")
         IN  Log([w1 EXCEPT !.flightTimers = Append(@, s)], "setTimeout")

\* Variant of flightTimerCallback: the input listeners are not set up.
flightTimerCallback_NoListeners(w, s) ==
    LET w1 == Log([w EXCEPT !.animationFrameId[s] = s,
                            !.frameCallbacks = @ \cup {s}],
                  "requestAnimationFrame")
    IN  [w1 EXCEPT !.airplaneFlightInterval = s]

\* startAirplaneFlight 207-223: the timer callback of session s.
flightTimerCallback(w, s) ==
    LET w1 == Log([w EXCEPT !.animationFrameId[s] = s,
                            !.frameCallbacks = @ \cup {s}],
                  "requestAnimationFrame")
        w2 == [w1 EXCEPT !.airplaneFlightInterval = s]
    IN  setupUserInteractionDetection(w2, s)

\* A frame callback that re-applies the altitude the flight started with
\* instead of the one it reads from the camera.
animate_InitialAltitude(w, s) ==
    LET w1 == Log([w EXCEPT !.povTransition = 0, !.povAltitude = 0,
                            !.altitude = initialAltitude],
                  "pointOfView")
    IN  Log([w1 EXCEPT !.animationFrameId[s] = s,
                       !.frameCallbacks = @ \cup {s}],
            "requestAnimationFrame")

\* startAirplaneFlight 152-204: the animate frame callback of session s.
animate(w, s) ==
    LET userAltitude == w.altitude
        w1 == Log([w EXCEPT !.povTransition = 0, !.povAltitude = 0,
                            !.altitude = userAltitude],
                  "pointOfView")
    IN  Log([w1 EXCEPT !.animationFrameId[s] = s,
                       !.frameCallbacks = @ \cup {s}],
            "requestAnimationFrame")

\* animateCategorySelection 74-90: the categories that have a region view.
HasRegionView(categoryId) == categoryId \in {"latin_america", "europe", "africa"}

\* Variant of animateCategorySelection: the tear-down also clears the loading
\* intro's reveal intervals and fade-in callback.
animateCategorySelection_StopsIntro(w, categoryId, data) ==
    LET w0 == [w EXCEPT !.pointsInterval = Off, !.arcsInterval = Off,
                        !.fadeFrame = FALSE]
        w1 == stopAirplaneFlight(w0)
    IN  IF categoryId = "lone_wolf"
        THEN startAirplaneFlight([w1 EXCEPT !.autoRotate = FALSE], data)
        ELSE LET w2 == [w1 EXCEPT !.autoRotate = TRUE]
             IN  IF HasRegionView(categoryId)
                 THEN Log([w2 EXCEPT !.povTransition = 2500,
                                     !.povAltitude = regionViews[categoryId]],
                          "pointOfView")
                 ELSE w2

\* animateCategorySelection 36-105
animateCategorySelection(w, categoryId, data) ==
    LET w1 == stopAirplaneFlight(w)
    IN  IF categoryId = "lone_wolf"
        THEN startAirplaneFlight([w1 EXCEPT !.autoRotate = FALSE], data)
        ELSE LET w2 == [w1 EXCEPT !.autoRotate = TRUE]
             IN  IF HasRegionView(categoryId)
                 THEN Log([w2 EXCEPT !.povTransition = 2500,
                                     !.povAltitude = regionViews[categoryId]],
                          "pointOfView")
                 ELSE w2

\* --------------------------------------------------------- the orbiters
\* Map.has and Map.set on the registry.
has(registry, name) == \E e \in registry : e.country = name

set(registry, name, entry) == { e \in registry : e.country # name } \cup {entry}

\* new THREE.Object3D(): a pivot that nothing holds yet.
FreePivots(w) == Pivots \ (w.scene \cup { e.pivot : e \in w.astronautOrbiters })

NewPivot(w) == CHOOSE p \in FreePivots(w) : \A q \in FreePivots(w) : p <= q

\* An exception leaves the handler: the call is abandoned where it stands.
throw(w) == Log(w, "throw")

Thrown(w) == w.effects # << >> /\ w.effects[Len(w.effects)] = "throw"

\* Variant of addOrbitingAstronaut: the scene is used without being looked
\* at, and adding to a scene that is not there throws.
addOrbitingAstronaut_NoSceneCheck(w, country, deps, speed) ==
    IF ~deps.globe \/ country.name = "" THEN w
    ELSE IF has(w.astronautOrbiters, country.name) THEN w
    ELSE IF ~deps.THREE THEN w
    ELSE IF deps.template = "throws" THEN throw(w)
    ELSE IF deps.template = "null" THEN w
    ELSE IF ~w.sceneAvailable THEN throw(w)
    ELSE LET pivot == NewPivot(w)
             entry == [ country |-> country.name, pivot |-> pivot,
                        astronaut |-> pivot, speed |-> speed ]
         IN  Log([w EXCEPT !.scene = @ \cup {pivot},
                           !.astronautOrbiters = set(@, country.name, entry)],
                 "scene.add")

\* Variant of addOrbitingAstronaut: the registry is not looked up first.
addOrbitingAstronaut_NoHasCheck(w, country, deps, speed) ==
    IF ~deps.globe \/ country.name = "" THEN w
    ELSE IF ~deps.THREE THEN w
    ELSE IF deps.template = "throws" THEN throw(w)
    ELSE IF deps.template = "null" THEN w
    ELSE IF ~w.sceneAvailable THEN w
    ELSE LET pivot == NewPivot(w)
             entry == [ country |-> country.name, pivot |-> pivot,
                        astronaut |-> pivot, speed |-> speed ]
         IN  Log([w EXCEPT !.scene = @ \cup {pivot},
                           !.astronautOrbiters = set(@, country.name, entry)],
                 "scene.add")

\* addOrbitingAstronaut 62-149; the astronaut is made with its pivot and
\* carries the same number.  deps.template is what createAstronautTemplate
\* does: it returns a group, returns null or throws.
addOrbitingAstronaut(w, country, deps, speed) ==
    IF ~deps.globe \/ country.name = "" THEN w
    ELSE IF has(w.astronautOrbiters, country.name) THEN w
    ELSE IF ~deps.THREE THEN w
    ELSE IF deps.template = "throws" THEN throw(w)
    ELSE IF deps.template = "null" THEN w
    ELSE IF ~w.sceneAvailable THEN w
    ELSE LET pivot == NewPivot(w)
             entry == [ country |-> country.name, pivot |-> pivot,
                        astronaut |-> pivot, speed |-> speed ]
         IN  Log([w EXCEPT !.scene = @ \cup {pivot},
                           !.astronautOrbiters = set(@, country.name, entry)],
                 "scene.add")

\* Variant of clearOrbiters: the entries are forgotten with their pivots
\* left in the scene.
clearOrbiters_KeepsPivots(w) == [w EXCEPT !.astronautOrbiters = {}]

\* clearOrbiters 154-164: one scene.remove per entry, then the registry is
\* emptied.
clearOrbiters(w) ==
    LET removed == IF w.sceneAvailable
                   THEN { e.pivot : e \in w.astronautOrbiters }
                   ELSE {}
        calls == IF w.sceneAvailable THEN Cardinality(w.astronautOrbiters) ELSE 0
    IN  [w EXCEPT !.scene = @ \ removed,
                  !.astronautOrbiters = {},
                  !.effects = @ \o [ k \in 1..calls |-> "scene.remove" ]]

\* updateOrbiters 169-180: the rotation and the bobbing follow the clock.
updateOrbiters(w) ==
    IF w.astronautOrbiters = {} THEN w ELSE Log(w, "rotate")

\* initializeOrbitersLoop 186-189: one run of orbitersLoop as frame callback.
orbitersLoopFrame(w) ==
    LET w1 == updateOrbiters([w EXCEPT !.orbitersLoop = FALSE])
    IN  Log([w1 EXCEPT !.orbitersLoop = TRUE], "requestAnimationFrame")

\* ------------------------------------------------------ the visualisation
\* A list returned by generateConnections is kept by the call that made it:
\* the names of the active countries and the category.  What the call can
\* return for them is generateConnections, above.  shown is Whole for the
\* list itself and k for a copy of its first k connections; NoCall is [].
Whole == -1

NoCall == [ made |-> FALSE, active |-> {}, category |-> Null, shown |-> 0 ]

generateConnectionsCall(data, enabledSet, category) ==
    [ made |-> TRUE, active |-> Names(activeCountries(data, enabledSet)),
      category |-> category, shown |-> Whole ]

\* main.js 74-77: loneWolfCountries.forEach(c => addOrbitingAstronaut(...)),
\* from the k-th country on; speeds[k] is the speed drawn for it.
\* An exception ends the loop.
RECURSIVE addOrbiters(_, _, _, _, _)
addOrbiters(w, countries, k, deps, speeds) ==
    IF k > Len(countries) \/ Thrown(w) THEN w
    ELSE addOrbiters(addOrbitingAstronaut(w, countries[k], deps, speeds[k]),
                     countries, k + 1, deps, speeds)

\* Variant of rebuildOrbiters: the orbiters are cleared only to be rebuilt.
rebuildOrbiters_ClearsToRebuild(w, countries, deps, speeds) ==
    IF w.activeCategory = "lone_wolf"
    THEN LET w2 == addOrbiters(clearOrbiters(w), loneWolfCountries(countries), 1,
                               deps, speeds)
         IN  IF Thrown(w2)
             THEN [w2 EXCEPT !.effects = [@ EXCEPT ![Len(@)] = "console.error"]]
             ELSE w2
    ELSE w

\* main.js 67-83: the try block of the 700 ms callback and its catch, which
\* reports the exception on the console.
rebuildOrbiters(w, countries, deps, speeds) ==
    LET w1 == clearOrbiters(w)
        w2 == IF w1.activeCategory = "lone_wolf"
              THEN addOrbiters(w1, loneWolfCountries(countries), 1, deps, speeds)
              ELSE w1
    IN  IF Thrown(w2)
        THEN [w2 EXCEPT !.effects = [@ EXCEPT ![Len(@)] = "console.error"]]
        ELSE w2

\* main.js 56-59: the callback of the 600 ms timer; the points are the
\* records it captured, the arcs the list main.js holds by then.
updateTimerCallback(w, t) ==
    Log(Log([w EXCEPT !.pointsData = [ i \in 1..Len(t.enabledCountryData) |->
                                         t.enabledCountryData[i].name ],
                      !.arcsData = w.connections],
            "pointsData"),
        "arcsData")

\* Variant of orbitersTimerCallback: the orbiters are not cleared first.
orbitersTimerCallback_NoClear(w, t, speeds) ==
    IF w.activeCategory = "lone_wolf"
    THEN addOrbiters(w, loneWolfCountries(t.enabledCountryData), 1, ProgramDeps, speeds)
    ELSE w

\* main.js 66-84: the callback of the 700 ms timer; the category is read
\* when it runs, the countries are those it captured.
orbitersTimerCallback(w, t, speeds) ==
    rebuildOrbiters(w, t.enabledCountryData, ProgramDeps, speeds)

\* main.js 39-85, the synchronous part: the connections are generated, the
\* layers are emptied and the two timers are set.
updateVisualization(w, data) ==
    LET enabledCountryData == activeCountries(data, w.enabledCountries)
        w1 == [w EXCEPT !.connections =
                   generateConnectionsCall(data, w.enabledCountries, w.activeCategory)]
        w2 == Log(Log([w1 EXCEPT !.pointsData = << >>, !.arcsData = NoCall],
                      "pointsData"),
                  "arcsData")
    IN  Log(Log([w2 EXCEPT !.vizTimers =
                     Append(@, [ enabledCountryData |-> enabledCountryData,
                                 shown |-> FALSE ])],
                "setTimeout"),
            "setTimeout")

\* Variant of regenerate: the interval is cleared once nothing is enabled.
regenerate_StopsWhenEmpty(w, data) ==
    IF w.enabledCountries # {}
    THEN Log([w EXCEPT !.connections =
                  generateConnectionsCall(data, w.enabledCountries, w.activeCategory),
                       !.arcsData =
                  generateConnectionsCall(data, w.enabledCountries, w.activeCategory)],
             "arcsData")
    ELSE [w EXCEPT !.regenerationInterval = FALSE]

\* main.js 121-127: the callback of the 8000 ms interval.
regenerate(w, data) ==
    IF w.enabledCountries # {}
    THEN Log([w EXCEPT !.connections =
                  generateConnectionsCall(data, w.enabledCountries, w.activeCategory),
                       !.arcsData =
                  generateConnectionsCall(data, w.enabledCountries, w.activeCategory)],
             "arcsData")
    ELSE w

\* ---------------------------------------------------------- the UI binding
\* Variant of categoryClickHandler: deselecting leaves enabledCountries as
\* the category set it.
categoryClickHandler_KeepsEnabled(w, categoryId, data) ==
    LET done ==
        IF w.activeCategory = categoryId
        THEN LET w1 == stopAirplaneFlight(w)
             IN  [w1 EXCEPT !.activeCategory = Null,
                            !.autoRotate = TRUE]
        ELSE LET w1 == [w EXCEPT !.activeCategory = categoryId,
                                 !.enabledCountries = Range(validCountries(data, categoryId))]
             IN  animateCategorySelection(w1, categoryId, data)
    IN  updateVisualization(done, data)

\* ui.js 103-141: click on a category item.
categoryClickHandler(w, categoryId, data) ==
    LET done ==
        IF w.activeCategory = categoryId
        THEN LET w1 == stopAirplaneFlight(w)
             IN  [w1 EXCEPT !.activeCategory = Null,
                            !.enabledCountries = Names(data),
                            !.autoRotate = TRUE]
        ELSE LET w1 == [w EXCEPT !.activeCategory = categoryId,
                                 !.enabledCountries = Range(validCountries(data, categoryId))]
             IN  animateCategorySelection(w1, categoryId, data)
    IN  updateVisualization(done, data)

\* ui.js 80-83
hideCountryInfo(w) == [w EXCEPT !.countryInfoOverlay = FALSE]

\* ui.js 62-75: the overlay is shown and a 2000 ms timer is set to hide it;
\* no timer of an earlier call is cleared.
showCountryInfo(w) ==
    Log([w EXCEPT !.countryInfoOverlay = TRUE, !.hideTimers = @ + 1], "setTimeout")

\* main.js 146-154: click on a point of the globe.
onPointClick(w) ==
    Log([showCountryInfo(w) EXCEPT !.povTransition = 1000, !.povAltitude = 15],
        "pointOfView")

\* Variant of countryClickHandler: the active category is not cleared.
countryClickHandler_KeepsCategory(w, name, data) ==
    LET done ==
        LET w1 == stopAirplaneFlight(w)
            w3 == IF name \in w1.enabledCountries
                  THEN [w1 EXCEPT !.enabledCountries = @ \ {name}]
                  ELSE Log([showCountryInfo(w1)
                                EXCEPT !.enabledCountries = @ \cup {name},
                                      !.povTransition = 2000,
                                      !.povAltitude = 12],
                           "pointOfView")
        IN  [w3 EXCEPT !.autoRotate = TRUE]
    IN  updateVisualization(done, data)

\* Variant of countryClickHandler: enabling a country replaces the selection
\* by that country alone.
countryClickHandler_ReplacesSelection(w, name, data) ==
    LET done ==
        LET w1 == stopAirplaneFlight(w)
            w2 == IF w1.activeCategory # Null THEN [w1 EXCEPT !.activeCategory = Null] ELSE w1
            w3 == IF name \in w2.enabledCountries
                  THEN [w2 EXCEPT !.enabledCountries = @ \ {name}]
                  ELSE Log([showCountryInfo(w2)
                                EXCEPT !.enabledCountries = {name},
                                      !.povTransition = 2000,
                                      !.povAltitude = 12],
                           "pointOfView")
        IN  [w3 EXCEPT !.autoRotate = TRUE]
    IN  updateVisualization(done, data)

\* ui.js 178-207: click on a country item.
countryClickHandler(w, name, data) ==
    LET done ==
        LET w1 == stopAirplaneFlight(w)
            w2 == IF w1.activeCategory # Null THEN [w1 EXCEPT !.activeCategory = Null] ELSE w1
            w3 == IF name \in w2.enabledCountries
                  THEN [w2 EXCEPT !.enabledCountries = @ \ {name}]
                  ELSE Log([showCountryInfo(w2)
                                EXCEPT !.enabledCountries = @ \cup {name},
                                      !.povTransition = 2000,
                                      !.povAltitude = 12],
                           "pointOfView")
        IN  [w3 EXCEPT !.autoRotate = TRUE]
    IN  updateVisualization(done, data)

\* ui.js 227-240
selectAllCountries(w, data) ==
    LET done ==
        LET w1 == stopAirplaneFlight(w)
        IN  [w1 EXCEPT !.activeCategory = Null,
                       !.enabledCountries = Names(data),
                       !.autoRotate = TRUE]
    IN  updateVisualization(done, data)

\* ui.js 245-258
deselectAllCountries(w, data) ==
    LET done ==
        LET w1 == stopAirplaneFlight(w)
        IN  [w1 EXCEPT !.activeCategory = Null,
                       !.enabledCountries = {},
                       !.autoRotate = TRUE]
    IN  updateVisualization(done, data)

\* setupUserInteractionDetection 234-240: onInteractionStart, the handler of
\* every listener a flight registers.
onInteractionStart(w) ==
    [stopAirplaneFlight(w) EXCEPT !.autoRotate = TRUE]

\* A mousedown, touchstart or wheel event on the canvas: the browser calls
\* the handlers registered for it.  They are all onInteractionStart, which
\* is idempotent, so one call stands for the dispatch.
dispatchCanvasEvent(w, event) ==
    IF \E l \in w.canvasListeners : l[1] = event
    THEN onInteractionStart(w)
    ELSE w

\* ------------------------------------------------------ the loading intro
\* startTransition 322-361: the fade-out starts and the four timers are set;
\* set together, they fire in the order of their delays (500, 1500, 1600,
\* 2000 ms).
startTransition_TooltipFirst(w) ==
    [w EXCEPT !.loadingScreen = "fade-out",
              !.loadingTimers = << "hideLoading", "startPoints", "tooltip", "uiFadeIn" >>]

startTransition(w) ==
    [w EXCEPT !.loadingScreen = "fade-out",
              !.loadingTimers = << "hideLoading", "startPoints", "uiFadeIn", "tooltip" >>]

\* What one run of checkGlobeReady observes of the globe.
Observations == {"ready", "notReady", "throws"}

\* A check that schedules itself again whatever it has seen.
checkGlobeReady_KeepsPolling(w, observed) ==
    IF observed = "ready"
    THEN Log([w EXCEPT !.globeReady = TRUE, !.pollTimer = TRUE], "setTimeout")
    ELSE Log([w EXCEPT !.pollTimer = TRUE], "setTimeout")

\* checkGlobeReady 284-298: the flag is set once the scene and the renderer
\* are there; otherwise, and when the check throws, it runs again in 100 ms.
checkGlobeReady(w, observed) ==
    IF observed = "ready"
    THEN [w EXCEPT !.globeReady = TRUE]
    ELSE Log([w EXCEPT !.pollTimer = TRUE], "setTimeout")

\* Variant of logoTimerCallback: the transition waits for the globe.
logoTimerCallback_WaitsForGlobe(w) ==
    IF w.globeReady THEN startTransition(w)
    ELSE Log([w EXCEPT !.quickCheck = TRUE], "setInterval")

\* initializeLoadingSequence 304-320: the callback of the 1000 ms timer.
logoTimerCallback(w) ==
    LET w1 == startTransition(w)
    IN  IF ~w1.globeReady
        THEN Log([w1 EXCEPT !.quickCheck = TRUE], "setInterval")
        ELSE w1

\* initializeLoadingSequence 313-318: one tick of the quickCheck interval.
quickCheckTick(w) ==
    IF w.globeReady
    THEN Log([w EXCEPT !.quickCheck = FALSE], "clearInterval")
    ELSE w

\* animatePointsSequential 367-385, the call: the 15 ms interval is set.
animatePointsSequential(w) == Log([w EXCEPT !.pointsInterval = 0], "setInterval")

\* animateArcFadeIn 413-439, one run of animate() at the given progress; the
\* last one empties the arcs and sets the timer that binds them again.
fadeAnimate(w, progress) ==
    LET w1 == [w EXCEPT !.arcOpacityMultiplier = progress]
    IN  IF progress < FadeSteps
        THEN Log([w1 EXCEPT !.fadeFrame = TRUE], "requestAnimationFrame")
        ELSE Log(Log([w1 EXCEPT !.fadeFrame = FALSE,
                                !.currentData = w.arcsData,
                                !.arcsData = NoCall,
                                !.rebindTimer = TRUE],
                     "arcsData"),
                 "setTimeout")

\* animateArcFadeIn 413-439, the call: animate() runs at once, at progress 0.
animateArcFadeIn(w) == fadeAnimate(w, 0)

\* animateArcFadeIn 434: the callback of the 10 ms timer.
rebindCallback(w) ==
    Log([w EXCEPT !.arcsData = w.currentData, !.currentData = NoCall], "arcsData")

\* An arc reveal that sets no interval on an empty list, and so never hands
\* over to the fade-in.
animateArcsSequential_SkipsEmpty(w, nArcs) ==
    IF nArcs = 0
    THEN [w EXCEPT !.arcsDataLength = nArcs]
    ELSE Log([w EXCEPT !.arcsInterval = 0, !.arcsDataLength = nArcs], "setInterval")

\* animateArcsSequential 390-408, the call: the 20 ms interval is set on a
\* list of nArcs connections.
animateArcsSequential(w, nArcs) ==
    Log([w EXCEPT !.arcsInterval = 0, !.arcsDataLength = nArcs], "setInterval")

\* startTransition 327-360: the callback of one of its timers.
loadingTimerCallback(w, t) ==
    IF t = "hideLoading" THEN [w EXCEPT !.loadingScreen = "hidden"]
    ELSE IF t = "startPoints" THEN animatePointsSequential(w)
    ELSE IF t = "uiFadeIn" THEN [w EXCEPT !.uiPanels = TRUE]
    ELSE [w EXCEPT !.tooltipEnabled = TRUE]

\* A reveal whose tick binds the newest point alone instead of a copy of
\* the points revealed so far.
pointsTick_NewestOnly(w, data, nArcs) ==
    IF w.pointsInterval < Len(data)
    THEN Log([w EXCEPT !.pointsInterval = @ + 1,
                       !.pointsData = << data[w.pointsInterval + 1].name >>],
             "pointsData")
    ELSE animateArcsSequential(Log([w EXCEPT !.pointsInterval = Off], "clearInterval"),
                               nArcs)

\* animatePointsSequential 374-384: one tick of the interval binds a copy of
\* the points revealed so far; the last one runs onComplete, which hands the
\* initial connections to the arc reveal.
pointsTick(w, data, nArcs) ==
    IF w.pointsInterval < Len(data)
    THEN Log([w EXCEPT !.pointsInterval = @ + 1,
                       !.pointsData = [ i \in 1..(w.pointsInterval + 1) |-> data[i].name ]],
             "pointsData")
    ELSE animateArcsSequential(Log([w EXCEPT !.pointsInterval = Off], "clearInterval"),
                               nArcs)

\* animateArcsSequential 397-407: one tick of the interval binds a copy of
\* the first connections of the list made at load.
arcsTick(w, data) ==
    IF w.arcsInterval < w.arcsDataLength
    THEN Log([w EXCEPT !.arcsInterval = @ + 1,
                       !.arcsData = [generateConnectionsCall(data, Names(data), Null)
                                        EXCEPT !.shown = w.arcsInterval + 1]],
             "arcsData")
    ELSE animateArcFadeIn(Log([w EXCEPT !.arcsInterval = Off], "clearInterval"))

\* ------------------------------------------------------------------- Init
InitWith(data, enabledSet, category, sceneOk) ==
    /\ countryData = data
    /\ enabledCountries = enabledSet
    /\ activeCategory = category
    /\ autoRotate = TRUE
    /\ airplaneFlightInterval = NoSession
    /\ userInteractionListeners = NoListeners
    /\ animationFrameId = [s \in Sessions |-> NoId]
    /\ flightTimers = << >>
    /\ frameCallbacks = {}
    /\ canvasListeners = {}
    /\ povTransition = 0
    /\ povAltitude = 0
    /\ altitude = GlobeAltitude
    /\ countryInfoOverlay = FALSE
    /\ hideTimers = 0
    /\ lastOp = << "initializeApp", Null >>
    /\ effects = << >>
    /\ stopRequested = {}
    /\ logoTimer = TRUE
    /\ loadingTimers = << >>
    /\ loadingScreen = "shown"
    /\ uiPanels = FALSE
    /\ tooltipEnabled = FALSE
    /\ pointsInterval = Off
    /\ arcsInterval = Off
    /\ arcsDataLength = 0
    /\ fadeFrame = FALSE
    /\ arcOpacityMultiplier = Tiny
    /\ rebindTimer = FALSE
    /\ currentData = NoCall
    /\ globeReady = FALSE
    /\ pollTimer = TRUE
    /\ quickCheck = FALSE
    /\ rendererReady = FALSE
    /\ connections = generateConnectionsCall(data, enabledSet, category)
    /\ returned = << >>
    /\ pointsData = << >>
    /\ arcsData = NoCall
    /\ vizTimers = << >>
    /\ astronautOrbiters = {}
    /\ scene = {}
    /\ sceneAvailable = sceneOk
    /\ regenerationInterval = TRUE
    /\ orbitersLoop = TRUE

\* The state initializeApp leaves.
Init ==
    /\ \E data \in Datasets : InitWith(data, Names(data), Null, TRUE)
    /\ args = << >>

\* generateConnections on its own: any dataset, enabled set and category.
InitGen ==
    \E data \in GenDatasets :
        \E enabledSet \in SUBSET (Names(data) \cup {Unlisted}) :
            \E category \in CategoryIds \cup {Null} :
                /\ InitWith(data, enabledSet, category, TRUE)
                /\ args = << >>

\* The orbiter module on its own, with and without a scene to attach to,
\* with lone_wolf active or no category.
InitOrbit ==
    \E data \in Datasets : \E sceneOk \in BOOLEAN :
        \E category \in {Null, "lone_wolf"} :
            /\ InitWith(data, Names(data), category, sceneOk)
            /\ args = << >>

\* isTransPacificRoute on its own: longitudes and latitudes at and beside
\* the edges of its bands.
InitRoute ==
    /\ \E data \in Datasets : InitWith(data, Names(data), Null, TRUE)
    /\ args \in RouteLngs \X RouteLngs \X RouteLats \X RouteLats

\* calculateDistance on its own: two points in whole degrees.
InitDistance ==
    /\ \E data \in Datasets : InitWith(data, Names(data), Null, TRUE)
    /\ args \in DistanceLats \X DistanceLngs \X DistanceLats \X DistanceLngs

\* ---------------------------------------------------------------- actions
\* A click on a category item.  A lone_wolf selection needs a fresh closure,
\* and every call of updateVisualization a free pair of timers.
ClickCategory(categoryId) ==
    /\ Len(vizTimers) < MaxUpdates
    /\ \/ activeCategory = categoryId
       \/ categoryId # "lone_wolf"
       \/ Len(loneWolfCountries(countryData)) = 0
       \/ FreeSessions(stopAirplaneFlight(World)) # {}
    /\ Commit(categoryClickHandler(World, categoryId, countryData),
              << IF activeCategory = categoryId THEN "deselectCategory"
                 ELSE "selectCategory", categoryId >>)

ClickCountry(name) ==
    /\ Len(vizTimers) < MaxUpdates
    /\ name \in Names(countryData)
    /\ name \in enabledCountries \/ hideTimers < MaxHideTimers
    /\ Commit(countryClickHandler(World, name, countryData), << "toggleCountry", name >>)

\* A click on a point that is bound to the globe.
PointClick(name) ==
    /\ name \in Range(pointsData)
    /\ hideTimers < MaxHideTimers
    /\ Commit(onPointClick(World), << "onPointClick", name >>)

\* The oldest pending 2000 ms timer of showCountryInfo fires.
HideTimerFires ==
    /\ hideTimers > 0
    /\ Commit(hideCountryInfo([World EXCEPT !.hideTimers = @ - 1]),
              << "hideCountryInfo", Null >>)

SelectAll ==
    /\ Len(vizTimers) < MaxUpdates
    /\ Commit(selectAllCountries(World, countryData), << "selectAllCountries", Null >>)

DeselectAll ==
    /\ Len(vizTimers) < MaxUpdates
    /\ Commit(deselectAllCountries(World, countryData), << "deselectAllCountries", Null >>)

CanvasInput(event) ==
    \E zoom \in (IF event = "wheel" THEN ZoomAltitudes ELSE {altitude}) :
        Commit(dispatchCanvasEvent([World EXCEPT !.altitude = zoom], event),
               << "canvasInput", event >>)

\* The oldest pending 1600 ms start timer fires.
FlightTimerFires ==
    /\ flightTimers # << >>
    /\ LET s == Head(flightTimers)
       IN  Commit(flightTimerCallback([World EXCEPT !.flightTimers = Tail(@)], s),
                  << "flightTimer", ToString(s) >>)

\* The browser runs a scheduled animate callback.
Frame(s) ==
    /\ s \in frameCallbacks
    /\ Commit(animate([World EXCEPT !.frameCallbacks = @ \ {s}], s),
              << "animate", ToString(s) >>)

\* The camera transition in progress reaches its target.
PovTransitionEnds ==
    /\ povTransition # 0
    /\ Commit([World EXCEPT !.povTransition = 0, !.povAltitude = 0,
                             !.altitude = povAltitude],
              << "povTransitionEnd", Null >>)

\* initializeLoadingSequence 304-320: the 1000 ms timer fires.
LogoTimerFires ==
    /\ logoTimer
    /\ Commit(logoTimerCallback([World EXCEPT !.logoTimer = FALSE]),
              << "startTransition", Null >>)

\* The 100 ms timer of checkGlobeReady fires; the check sees the globe ready
\* exactly when its scene and its renderer are there.
PollTimerFires ==
    /\ pollTimer
    /\ \E observed \in Observations :
          /\ observed = "ready" <=> (sceneAvailable /\ rendererReady)
          /\ Commit(checkGlobeReady([World EXCEPT !.pollTimer = FALSE], observed),
                    << "checkGlobeReady", observed >>)

\* The quickCheck interval fires.
QuickCheckTick ==
    /\ quickCheck
    /\ Commit(quickCheckTick(World), << "quickCheck", Null >>)

\* The renderer of the globe comes up.
RendererBecomesReady ==
    /\ ~rendererReady
    /\ Commit([World EXCEPT !.rendererReady = TRUE], << "rendererReady", Null >>)

\* The earliest pending timer of startTransition fires.
LoadingTimerFires ==
    /\ loadingTimers # << >>
    /\ Commit(loadingTimerCallback([World EXCEPT !.loadingTimers = Tail(@)],
                                   Head(loadingTimers)),
              << "loadingTimer", Head(loadingTimers) >>)

\* The connections generated at load are random and are first looked at by
\* the arc reveal: their number is drawn when the point reveal hands them over.
PointsTick ==
    /\ pointsInterval # Off
    /\ \E nArcs \in 0..MaxArcs :
          Commit(pointsTick(World, countryData, nArcs), << "pointsTick", Null >>)

ArcsTick ==
    /\ arcsInterval # Off
    /\ Commit(arcsTick(World, countryData), << "arcsTick", Null >>)

\* One frame of the arc fade-in: the elapsed time, and with it the progress,
\* never decreases.
FadeFrame ==
    /\ fadeFrame
    /\ \E progress \in 0..FadeSteps :
          /\ progress >= arcOpacityMultiplier
          /\ Commit(fadeAnimate([World EXCEPT !.fadeFrame = FALSE], progress),
                    << "fadeFrame", Null >>)

\* animateArcFadeIn 434: the arcs are bound again 10 ms after the fade-in.
RebindTimerFires ==
    /\ rebindTimer
    /\ Commit(rebindCallback([World EXCEPT !.rebindTimer = FALSE]),
              << "rebindArcs", Null >>)

\* The call of generateConnections(countryData, enabledCountries,
\* activeCategory) under test, with its draws.
GenerateCall ==
    LET active == activeCountries(countryData, enabledCountries)
        n == Len(active)
    IN  /\ lastOp[1] = "initializeApp"
        /\ \E shouldConnect \in PairDraws(n) :
              LET conns == pairLoop(active, 1, 2, shouldConnect, activeCategory)
                  m == Len(isolatedCountries(active, conns))
              IN  \E randomIndex \in IndexDraws(m, n) :
                    Commit([World EXCEPT !.returned =
                              generateConnections(countryData, enabledCountries,
                                                  activeCategory, shouldConnect,
                                                  randomIndex)],
                           << "generateConnections", Null >>)

\* A call of isTransPacificRoute(startLng, endLng, startLat, endLat).
RouteCall ==
    /\ Len(args) = 4
    /\ Commit([World EXCEPT !.returned =
                  isTransPacificRoute(args[1], args[2], args[3], args[4])],
              << "isTransPacificRoute", Null >>)

\* A call of calculateDistance(lat1, lng1, lat2, lng2).
DistanceCall ==
    /\ Len(args) = 4
    /\ Commit([World EXCEPT !.returned =
                  calculateDistance(args[1], args[2], args[3], args[4])],
              << "calculateDistance", Null >>)

\* The 600 ms timer of the oldest updateVisualization call that has not
\* shown its data yet fires.
UpdateTimerFires ==
    \E i \in 1..Len(vizTimers) :
        /\ ~vizTimers[i].shown
        /\ \A j \in 1..(i - 1) : vizTimers[j].shown
        /\ Commit(updateTimerCallback([World EXCEPT !.vizTimers[i].shown = TRUE],
                                       vizTimers[i]),
                  << "updateTimer", Null >>)

\* The 700 ms timer of the oldest updateVisualization call fires, 100 ms
\* after its 600 ms timer.  Each orbiter it adds needs a free pivot.
OrbitersTimerFires ==
    /\ vizTimers # << >>
    /\ Head(vizTimers).shown
    /\ LET t == Head(vizTimers)
           w == [World EXCEPT !.vizTimers = Tail(@)]
           n == Len(loneWolfCountries(t.enabledCountryData))
       IN  /\ n <= Cardinality(FreePivots(clearOrbiters(w)))
           /\ \E speeds \in [ 1..n -> Speeds ] :
                 Commit(orbitersTimerCallback(w, t, speeds), << "orbitersTimer", Null >>)

\* The 8000 ms interval fires.
RegenerationTick ==
    /\ regenerationInterval
    /\ Commit(regenerate(World, countryData), << "regenerate", Null >>)

\* The browser runs the frame callback of the orbiter loop.
OrbitersFrame ==
    /\ orbitersLoop
    /\ Commit(orbitersLoopFrame(World), << "orbitersLoop", Null >>)

\* A call of addOrbitingAstronaut; one that gets as far as making a pivot
\* needs a free one.
AddOrbiter(country, deps, speed) ==
    /\ \/ FreePivots(World) # {}
       \/ has(astronautOrbiters, country.name)
       \/ ~deps.globe
       \/ ~deps.THREE
       \/ deps.template # "group"
    /\ Commit(addOrbitingAstronaut(World, country, deps, speed),
              << "addOrbitingAstronaut", country.name >>)

\* The block of the 700 ms callback run with any arguments for the globe
\* and THREE, on the enabled countries of the dataset.
RebuildOrbiters(deps) ==
    LET countries == activeCountries(countryData, enabledCountries)
        n == Len(loneWolfCountries(countries))
    IN  /\ n <= Cardinality(FreePivots(clearOrbiters(World)))
        /\ \E speeds \in [ 1..n -> Speeds ] :
              Commit(rebuildOrbiters(World, countries, deps, speeds),
                     << "rebuildOrbiters", Null >>)

\* A call of clearOrbiters.
ClearOrbiters ==
    Commit(clearOrbiters(World), << "clearOrbiters", Null >>)

\* The UI binding and the flight choreography.
Next ==
    \/ \E c \in CategoryIds : ClickCategory(c)
    \/ \E n \in Names(countryData) : ClickCountry(n)
    \/ SelectAll
    \/ DeselectAll
    \/ \E e \in InputEvents : CanvasInput(e)
    \/ FlightTimerFires
    \/ \E s \in Sessions : Frame(s)
    \/ PovTransitionEnds
    \/ UpdateTimerFires
    \/ OrbitersTimerFires

IntroNext ==
    \/ LogoTimerFires
    \/ LoadingTimerFires
    \/ PointsTick
    \/ ArcsTick
    \/ FadeFrame
    \/ RebindTimerFires

\* The scheduling of the choreography sessions together: the loading intro's
\* timers, the category clicks that start a transition or a flight, and the
\* flight's start timer. The two timers of updateVisualization stay pending
\* here, so the guard of the click bounds the clicks by MaxUpdates.
NextIntro ==
    \/ IntroNext
    \/ \E c \in CategoryIds : ClickCategory(c)
    \/ FlightTimerFires

Spec == Init /\ [][Next]_vars

SpecIntro == Init /\ [][NextIntro]_vars

\* The loading sequence on its own, with its readiness poll and a renderer
\* that comes up at any time or never.
NextLoading ==
    \/ IntroNext
    \/ PollTimerFires
    \/ QuickCheckTick
    \/ RendererBecomesReady

\* The pending timers of the sequence fire and the reveal interval ticks.
SpecLoading ==
    /\ Init
    /\ [][NextLoading]_vars
    /\ WF_vars(LogoTimerFires)
    /\ WF_vars(LoadingTimerFires)
    /\ WF_vars(PointsTick)

\* The loading sequence with the browser running the 1000 ms timer, the
\* 100 ms poll timer and the quickCheck interval whenever they are pending.
SpecPoll ==
    /\ Init
    /\ [][NextLoading]_vars
    /\ WF_vars(LogoTimerFires)
    /\ WF_vars(PollTimerFires)
    /\ WF_vars(QuickCheckTick)

\* A frame of the fade-in on which the progress has grown: the clock read by
\* animate() moves on from frame to frame, so the frames cannot all find the
\* progress where it was.
FadeAdvances == FadeFrame /\ arcOpacityMultiplier' > arcOpacityMultiplier

\* The choreography sessions with the browser's scheduling: a pending timeout
\* fires, a set interval ticks and a requested animation frame is run, while
\* the user clicks categories at any time or never.
SpecFade ==
    /\ Init
    /\ [][NextIntro]_vars
    /\ WF_vars(LogoTimerFires)
    /\ WF_vars(LoadingTimerFires)
    /\ WF_vars(PointsTick)
    /\ WF_vars(ArcsTick)
    /\ WF_vars(FadeAdvances)

\* The flight choreography on its own: the panel's clicks, canvas input, the
\* start timer and the frame callbacks. The two timers of updateVisualization
\* stay pending here too.
NextFlight ==
    \/ \E c \in CategoryIds : ClickCategory(c)
    \/ \E n \in Names(countryData) : ClickCountry(n)
    \/ SelectAll
    \/ DeselectAll
    \/ \E e \in InputEvents : CanvasInput(e)
    \/ FlightTimerFires
    \/ \E s \in Sessions : Frame(s)
    \/ PovTransitionEnds

\* A pending timeout fires: the browser runs the callback of the flight's
\* start timer, which no code clears.
FairSpec == Init /\ [][NextFlight]_vars /\ WF_vars(FlightTimerFires)

\* The panel and the visualisation: every click runs updateVisualization,
\* whose two timers fire in the order they were set.
NextUI ==
    \/ \E c \in CategoryIds : ClickCategory(c)
    \/ \E n \in Names(countryData) : ClickCountry(n)
    \/ SelectAll
    \/ DeselectAll
    \/ UpdateTimerFires
    \/ OrbitersTimerFires

SpecUI == Init /\ [][NextUI]_vars

\* The two loops initializeApp starts, the 8-second interval and the
\* orbiters' frame loop, running beside the panel's clicks, the flight's
\* start timer and canvas input. The two timers of updateVisualization stay
\* pending here.
NextApp ==
    \/ \E c \in CategoryIds : ClickCategory(c)
    \/ \E n \in Names(countryData) : ClickCountry(n)
    \/ SelectAll
    \/ DeselectAll
    \/ \E e \in InputEvents : CanvasInput(e)
    \/ FlightTimerFires
    \/ RegenerationTick
    \/ OrbitersFrame

SpecApp == Init /\ [][NextApp]_vars

\* The display: the loading intro, the panel's two buttons, the two timers
\* of updateVisualization and the 8-second interval, all of them writing the
\* point and arc layers.
NextDisplay ==
    \/ IntroNext
    \/ SelectAll
    \/ DeselectAll
    \/ UpdateTimerFires
    \/ OrbitersTimerFires
    \/ RegenerationTick

\* Every pending timeout fires, every interval ticks and every requested
\* frame runs; the user clicks at any time or never.
SpecDisplay ==
    /\ Init
    /\ [][NextDisplay]_vars
    /\ WF_vars(LogoTimerFires)
    /\ WF_vars(LoadingTimerFires)
    /\ WF_vars(PointsTick)
    /\ WF_vars(ArcsTick)
    /\ WF_vars(FadeAdvances)
    /\ WF_vars(RebindTimerFires)
    /\ WF_vars(UpdateTimerFires)
    /\ WF_vars(OrbitersTimerFires)
    /\ WF_vars(RegenerationTick)

\* The category sessions: the category items, canvas input, the flight's
\* start timer and frames, the camera transition and the two timers of
\* updateVisualization.
NextSessions ==
    \/ \E c \in CategoryIds : ClickCategory(c)
    \/ \E e \in InputEvents : CanvasInput(e)
    \/ FlightTimerFires
    \/ \E s \in Sessions : Frame(s)
    \/ PovTransitionEnds
    \/ UpdateTimerFires
    \/ OrbitersTimerFires

SpecSessions == Init /\ [][NextSessions]_vars

\* The country info overlay: the country items of the panel and the points
\* of the globe call showCountryInfo, and its 2000 ms timers fire in the
\* order they were set.
NextOverlay ==
    \/ \E n \in Names(countryData) : ClickCountry(n)
    \/ \E n \in Names(countryData) : PointClick(n)
    \/ HideTimerFires
    \/ UpdateTimerFires
    \/ OrbitersTimerFires

SpecOverlay == Init /\ [][NextOverlay]_vars

\* The orbiter module called in any order, with any arguments.
NextOrbit ==
    \/ \E country \in Range(countryData) \cup {Unnamed} :
          \E deps \in Deps : \E speed \in Speeds : AddOrbiter(country, deps, speed)
    \/ \E deps \in Deps : RebuildOrbiters(deps)
    \/ ClearOrbiters
    \/ OrbitersFrame

SpecOrbit == InitOrbit /\ [][NextOrbit]_vars

\* generateConnections applied to every dataset, enabled set and category.
SpecGen == InitGen /\ [][GenerateCall]_vars

\* isTransPacificRoute applied to every sample route.
SpecRoute == InitRoute /\ [][RouteCall]_vars

\* calculateDistance applied to every pair of sample points.
SpecDistance == InitDistance /\ [][DistanceCall]_vars

\* ================================================================== claims
\* The loading intro is still running: one of its reveal intervals or its
\* fade-in frame callback is scheduled.
IntroRunning == pointsInterval # Off \/ arcsInterval # Off \/ fadeFrame

\* A category transition (2500 ms camera move) or a continuous flight (its
\* 1500 ms initial move, its start timer or its frame loop) is active.
CategorySessionActive == FlightInProgress \/ povTransition \in {1500, 2500}

RecordedListeners ==
    { << userInteractionListeners[i].event, userInteractionListeners[i].handler >> :
        i \in 1..Len(userInteractionListeners) }

IsCancel(call) == call = "cancelAnimationFrame"

\* C1: in every reachable state at most one continuous-flight frame loop
\* (animate callback) is scheduled, also when two lone_wolf selections had
\* their start timers pending together.
C1_AtMostOneFlightLoop == Cardinality(frameCallbacks) <= 1

\* C2: from the click that deselects the active lone_wolf category until
\* lone_wolf is selected again, no flight frame loop is scheduled, also when
\* the click came before the 1600 ms start timer fired.
C2_NoFlightAfterDeselect == "deselect" \in stopRequested => frameCallbacks = {}

\* C3: once a mousedown, touchstart or wheel event has reached the canvas
\* during a flight session (from the lone_wolf selection on), no flight frame
\* loop is scheduled and autoRotate is true, until lone_wolf is selected again.
C3_InputCancelsFlight ==
    "input" \in stopRequested => (frameCallbacks = {} /\ autoRotate)

C5_ExactlyOneCancelFirst ==
    [][ (lastOp' = << "selectCategory", "lone_wolf" >> /\ frameCallbacks # {}) =>
          /\ Len(SelectSeq(effects', IsCancel)) = 1
          /\ effects'[1] = "cancelAnimationFrame" ]_vars

\* C6: the listeners registered on the canvas are exactly those recorded in
\* userInteractionListeners: none, or one mousedown/touchstart/wheel triple.
C6_ListenersExactlyRecorded ==
    /\ canvasListeners = RecordedListeners
    /\ \/ userInteractionListeners = NoListeners
       \/ /\ Len(userInteractionListeners) = 3
          /\ { l[1] : l \in RecordedListeners } = InputEvents

\* C7: if activeCategory is not null, enabledCountries is exactly the set of
\* that category's member names that exist in the dataset.
C7_ActiveCategoryDeterminesEnabled ==
    activeCategory # Null =>
        enabledCountries =
            { n \in Range(categories(countryData)[activeCategory]) :
                n \in Names(countryData) }

C7_Witness ==
    /\ activeCategory = "latin_america"
    /\ enabledCountries = {"Mexico"}
    /\ lastOp = << "selectCategory", "latin_america" >>

\* C8: enabledCountries is a subset of the dataset's names, also after the
\* selection of a category whose member list names absent countries.
C8_EnabledSubsetOfDataset == enabledCountries \subseteq Names(countryData)

C8_Witness ==
    /\ lastOp = << "selectCategory", "europe" >>
    /\ \E n \in Range(categories(countryData).europe) : n \notin Names(countryData)
    /\ enabledCountries = {"France"}

\* C9: a click on category c while c, selected by the last click, is the
\* active category leaves enabledCountries equal to all dataset names and
\* activeCategory null.
C9_SelectThenDeselect ==
    [][ \A c \in CategoryIds :
          (/\ activeCategory = c
           /\ lastOp'[1] \in {"selectCategory", "deselectCategory"}
           /\ lastOp'[2] = c)
          => (/\ enabledCountries' = Names(countryData)
              /\ activeCategory' = Null) ]_vars

C9_Witness ==
    /\ lastOp = << "deselectCategory", "africa" >>
    /\ enabledCountries = Names(countryData)
    /\ activeCategory = Null

\* C10: selecting lone_wolf on a dataset with a count==1 country sets
\* enabledCountries to exactly the count==1 countries, turns autoRotate off at
\* once and sets the start timer; a pending start timer leads to its callback
\* having run: the frame loop is scheduled and its input listeners are
\* installed and recorded.
C10_LoneWolfStartsFlight ==
    /\ [][ (lastOp' = << "selectCategory", "lone_wolf" >>
            /\ \E i \in 1..Len(countryData) : countryData[i].count = 1)
           => (/\ enabledCountries' =
                    { countryData[i].name : i \in { j \in 1..Len(countryData) :
                                                      countryData[j].count = 1 } }
               /\ ~autoRotate'
               /\ flightTimers' # << >>) ]_vars
    /\ (flightTimers # << >>)
         ~> (/\ lastOp[1] = "flightTimer"
             /\ airplaneFlightInterval # NoSession
             /\ airplaneFlightInterval \in frameCallbacks
             /\ { << e, airplaneFlightInterval >> : e \in InputEvents }
                   \subseteq canvasListeners
             /\ RecordedListeners \subseteq canvasListeners
             /\ userInteractionListeners # NoListeners)

C10_Witness ==
    /\ activeCategory = "lone_wolf"
    /\ enabledCountries = {"Canada", "Mexico"}
    /\ ~autoRotate
    /\ lastOp[1] = "flightTimer"
    /\ frameCallbacks # {}
    /\ userInteractionListeners # NoListeners

\* C11: a click on country x in the country list sets activeCategory to null
\* and flips only x's membership in enabledCountries: x is removed if it was
\* enabled and added otherwise; every other name keeps its membership.
C11_ToggleFlipsOnlyX ==
    [][ \A x \in Names(countryData) :
          lastOp' = << "toggleCountry", x >> =>
            /\ activeCategory' = Null
            /\ (x \in enabledCountries') = (x \notin enabledCountries)
            /\ enabledCountries' \ {x} = enabledCountries \ {x} ]_vars

C11_Witness ==
    /\ lastOp = << "toggleCountry", "Mexico" >>
    /\ activeCategory = Null
    /\ enabledCountries = {"Canada"}

\* The position of a country in the dataset.
Pos(name) == CHOOSE i \in 1..Len(countryData) : countryData[i].name = name

\* The enabled names that are countries of the dataset.
EnabledDatasetCountries == enabledCountries \cap Names(countryData)

IsEndpoint(x) ==
    \E k \in 1..Len(returned) :
        returned[k].startCountry = x \/ returned[k].endCountry = x

\* A forced connection whose partner precedes the isolated country in the
\* dataset (a pair-loop connection never runs in that direction).
BackwardForcedConnection ==
    \E k \in 1..Len(returned) :
        Pos(returned[k].startCountry) > Pos(returned[k].endCountry)

\* C12 (as claimed): for every enabled set and every outcome of the draws,
\* every enabled country of the dataset is an endpoint of at least one
\* connection of the returned list.
C12_NoOrphans ==
    lastOp[1] = "generateConnections" =>
        \A x \in EnabledDatasetCountries : IsEndpoint(x)

\* C12 (amended): when at least two countries of the dataset are enabled,
\* every enabled country of the dataset is an endpoint of at least one
\* connection of the returned list, for every outcome of the draws.
C12_NoOrphansAmongSeveral ==
    (lastOp[1] = "generateConnections" /\ Cardinality(EnabledDatasetCountries) >= 2) =>
        \A x \in EnabledDatasetCountries : IsEndpoint(x)

C12_Witness ==
    /\ lastOp[1] = "generateConnections"
    /\ Cardinality(EnabledDatasetCountries) >= 3
    /\ BackwardForcedConnection
    /\ \A x \in EnabledDatasetCountries : IsEndpoint(x)

\* C13: generateConnections returns the empty list whenever at most one
\* enabled name is a country of the dataset, for every active category and
\* every count of that country: no forced self-connection is made.
C13_EmptyForAtMostOne ==
    (lastOp[1] = "generateConnections" /\ Cardinality(EnabledDatasetCountries) <= 1) =>
        returned = << >>

C13_Witness ==
    /\ lastOp[1] = "generateConnections"
    /\ EnabledDatasetCountries = {"Canada"}
    /\ activeCategory = "lone_wolf"
    /\ returned = << >>

\* C14: every connection of the returned list, from the pair loop or from
\* the post-pass, has its startCountry and its endCountry in the enabled set
\* of the call, and the two differ.
C14_EndpointsEnabledAndDistinct ==
    lastOp[1] = "generateConnections" =>
        \A k \in 1..Len(returned) :
            /\ returned[k].startCountry \in enabledCountries
            /\ returned[k].endCountry \in enabledCountries
            /\ returned[k].startCountry # returned[k].endCountry

C14_Witness ==
    /\ lastOp[1] = "generateConnections"
    /\ EnabledDatasetCountries = {"Chile", "Japan", "Fiji"}
    /\ Len(returned) = 2
    /\ returned[1].startCountry = "Chile"
    /\ BackwardForcedConnection

\* The pivots held by the entries of the registry.
RegistryPivots == { e.pivot : e \in astronautOrbiters }

IsRemove(call) == call = "scene.remove"

\* C18: after any sequence of addOrbitingAstronaut and clearOrbiters calls
\* the pivots attached to the scene are exactly the pivots of the entries in
\* the registry, one per entry; clearOrbiters removes each of them from the
\* scene once and leaves both the registry and the scene empty.
C18_ScenePivotsAreRegistryPivots ==
    /\ [](/\ scene = RegistryPivots
          /\ Cardinality(astronautOrbiters) = Cardinality(scene))
    /\ [][ lastOp'[1] = "clearOrbiters" =>
             /\ astronautOrbiters' = {}
             /\ scene' = {}
             /\ Len(SelectSeq(effects', IsRemove)) = Cardinality(scene) ]_vars

C18_Witness ==
    /\ lastOp[1] = "clearOrbiters"
    /\ Len(SelectSeq(effects, IsRemove)) = 2
    /\ scene = {}
    /\ astronautOrbiters = {}

\* C19: addOrbitingAstronaut called for a name that is already in the
\* registry adds no pivot to the scene and leaves the registry, with the
\* entry of that name, as it was; the registry never holds two entries for
\* one name.
C19_AddExistingIsNoOp ==
    /\ [][ \A n \in Names(countryData) :
             (lastOp' = << "addOrbitingAstronaut", n >> /\ has(astronautOrbiters, n))
             => (astronautOrbiters' = astronautOrbiters /\ scene' = scene) ]_vars
    /\ [](\A e1, e2 \in astronautOrbiters : e1.country = e2.country => e1 = e2)

C19_Witness ==
    /\ lastOp = << "addOrbitingAstronaut", "Canada" >>
    /\ effects = << >>
    /\ \E e \in astronautOrbiters : e.country = "Canada" /\ e.pivot = 1 /\ e.speed = 14
    /\ Cardinality(astronautOrbiters) = 2

\* The keys of the orbiter registry.
OrbiterNames == { e.country : e \in astronautOrbiters }

\* The enabled countries of the dataset whose count is 1.
EnabledLoneWolves ==
    Names(loneWolfCountries(activeCountries(countryData, enabledCountries)))

\* C17: once every timer set by updateVisualization has fired, the last
\* mutation's 700 ms callback included, the keys of the orbiter registry are
\* the enabled countries with count 1 if the active category is lone_wolf,
\* and the registry is empty otherwise.
C17_OrbitersFollowLoneWolves ==
    vizTimers = << >> =>
        OrbiterNames = IF activeCategory = "lone_wolf" THEN EnabledLoneWolves ELSE {}

C17_Witness ==
    /\ vizTimers = << >>
    /\ lastOp[1] = "orbitersTimer"
    /\ activeCategory = "lone_wolf"
    /\ OrbiterNames = {"Canada", "Mexico"}
    /\ enabledCountries = {"Canada", "Mexico"}

\* C20: the 8000 ms regeneration interval and the orbiters' frame loop are
\* scheduled in every reachable state; no click of the panel, no flight
\* start or stop and no run of either of them cancels one.
C20_LoopsStayScheduled ==
    regenerationInterval /\ orbitersLoop

C20_Witness ==
    /\ lastOp[1] = "regenerate"
    /\ enabledCountries = {}
    /\ effects = << >>
    /\ regenerationInterval
    /\ orbitersLoop

\* The arc fade-in has completed: the multiplier has reached 1.
FadeInComplete == arcOpacityMultiplier = FadeSteps

IntroShown ==
    /\ loadingScreen = "hidden"
    /\ uiPanels
    /\ pointsData = [ i \in 1..Len(countryData) |-> countryData[i].name ]

\* C16: the callback of the 1000 ms timer starts the fade sequence whatever
\* the readiness poll has found, and with a renderer that never becomes
\* ready the loading screen still goes, the panels are revealed and the
\* points are all shown.
C16_TransitionIgnoresReadiness ==
    /\ [][ (logoTimer /\ ~logoTimer') =>
             /\ loadingScreen' = "fade-out"
             /\ loadingTimers' = << "hideLoading", "startPoints", "uiFadeIn", "tooltip" >>
         ]_vars
    /\ <>IntroShown

C16_Witness ==
    /\ IntroShown
    /\ ~rendererReady
    /\ ~globeReady
    /\ pollTimer
    /\ quickCheck

\* C21: isTransPacificRoute gives the same answer with the two endpoints
\* swapped, longitudes and latitudes together.
C21_RouteSymmetric ==
    lastOp[1] = "isTransPacificRoute" =>
        returned = isTransPacificRoute(args[2], args[1], args[4], args[3])

C21_Witness ==
    /\ lastOp[1] = "isTransPacificRoute"
    /\ args = << 110, -30, -50, 90 >>
    /\ returned = TRUE

\* The definition of a trans-Pacific route in words: one endpoint in the
\* Latin America band, the other in the Asia band or, with its own latitude
\* in [-50, -10], in the Oceania band.
TransPacificByDefinition(startLng, endLng, startLat, endLat) ==
    LET inLatinAmerica(lng) == lng >= -120 /\ lng <= -30
        inAsia(lng) == lng >= 95 /\ lng <= 180
        inOceania(lng, lat) == lng >= 110 /\ lng <= 180 /\ lat >= -50 /\ lat <= -10
    IN  \/ inLatinAmerica(startLng) /\ (inAsia(endLng) \/ inOceania(endLng, endLat))
        \/ inLatinAmerica(endLng) /\ (inAsia(startLng) \/ inOceania(startLng, startLat))

\* C22: isTransPacificRoute returns true exactly for the routes of that
\* definition; reading endLat for the start's Oceania test changes no answer.
C22_RouteMatchesDefinition ==
    lastOp[1] = "isTransPacificRoute" =>
        returned = TransPacificByDefinition(args[1], args[2], args[3], args[4])

C22_Witness ==
    /\ lastOp[1] = "isTransPacificRoute"
    /\ args = << 180, -120, -9, -50 >>
    /\ returned = TRUE

\* C23: calculateDistance gives the same distance with the two points
\* swapped, and 0 for a point and itself.
C23_DistanceSymmetricAndZero ==
    lastOp[1] = "calculateDistance" =>
        /\ returned = calculateDistance(args[3], args[4], args[1], args[2])
        /\ (args[1] = args[3] /\ args[2] = args[4]) => returned = 0

C23_Witness ==
    /\ lastOp[1] = "calculateDistance"
    /\ args = << -35, -71, 36, 138 >>
    /\ returned > 16000
    /\ returned < 18500

\* The positions in the dataset of the two countries of returned[k].
PairOf(k) == << Pos(returned[k].startCountry), Pos(returned[k].endCountry) >>

\* The first p connections are what a pair loop emits: each runs from a
\* country to a later one, and the pairs come in the order of the loop.
PairLoopShaped(p) ==
    \A k \in 1..p :
        /\ PairOf(k)[1] < PairOf(k)[2]
        /\ k > 1 => \/ PairOf(k - 1)[1] < PairOf(k)[1]
                    \/ /\ PairOf(k - 1)[1] = PairOf(k)[1]
                       /\ PairOf(k - 1)[2] < PairOf(k)[2]

\* The enabled countries that none of the first p connections touches.
IsolatedAfter(p) ==
    { x \in EnabledDatasetCountries :
        \A k \in 1..p : returned[k].startCountry # x /\ returned[k].endCountry # x }

\* The connections after the first p are the forced ones: one for each
\* country the first p left alone, from that country to another enabled one.
ForcedAfter(p) ==
    /\ \A k \in (p + 1)..Len(returned) :
          /\ returned[k].startCountry \in IsolatedAfter(p)
          /\ returned[k].endCountry \in EnabledDatasetCountries
          /\ returned[k].endCountry # returned[k].startCountry
    /\ \A x \in IsolatedAfter(p) :
          Cardinality({ k \in (p + 1)..Len(returned) : returned[k].startCountry = x }) = 1

\* C24: with at least two active countries the returned list is the pair
\* loop's connections followed by exactly one forced connection for each
\* country those left without any, from that country to a different active
\* one; a country the pair loop connected starts no forced connection.
C24_OneForcedPerIsolated ==
    (lastOp[1] = "generateConnections" /\ Cardinality(EnabledDatasetCountries) >= 2) =>
        \E p \in 0..Len(returned) : PairLoopShaped(p) /\ ForcedAfter(p)

C24_Witness ==
    /\ lastOp[1] = "generateConnections"
    /\ EnabledDatasetCountries = {"Chile", "Japan", "Australia", "Fiji"}
    /\ Len(returned) = 3
    /\ returned[1].startCountry = "Chile" /\ returned[1].endCountry = "Japan"
    /\ returned[2].startCountry = "Australia" /\ returned[2].endCountry = "Chile"
    /\ returned[3].startCountry = "Fiji" /\ returned[3].endCountry = "Australia"

\* Connections j and k join the same two countries.
SamePair(j, k) ==
    {returned[j].startCountry, returned[j].endCountry}
        = {returned[k].startCountry, returned[k].endCountry}

\* C25: in a returned list no two countries are joined by more than two
\* connections; the pair loop's part joins each pair at most once, and two
\* connections join the same pair only as forced connections in opposite
\* directions between two countries the pair loop both left alone.
C25_PairAtMostTwice ==
    (lastOp[1] = "generateConnections" /\ returned # << >>) =>
        \E p \in 0..Len(returned) :
            /\ PairLoopShaped(p)
            /\ ForcedAfter(p)
            /\ \A j, k \in 1..Len(returned) :
                  (j < k /\ SamePair(j, k)) =>
                      /\ j > p
                      /\ returned[j].startCountry = returned[k].endCountry
                      /\ returned[j].endCountry = returned[k].startCountry
                      /\ returned[j].startCountry \in IsolatedAfter(p)
                      /\ returned[k].startCountry \in IsolatedAfter(p)
                      /\ \A m \in 1..Len(returned) : SamePair(j, m) => m \in {j, k}

C25_Witness ==
    /\ lastOp[1] = "generateConnections"
    /\ EnabledDatasetCountries = {"USA", "Canada", "Mexico"}
    /\ Len(returned) = 3
    /\ returned[1].startCountry = "USA" /\ returned[1].endCountry = "Canada"
    /\ returned[2].startCountry = "Canada" /\ returned[2].endCountry = "USA"
    /\ returned[3].startCountry = "Mexico"

\* The record of the dataset for a name.
CountryNamed(name) == countryData[Pos(name)]

\* The pair of returned[k] is a trans-Pacific route on the two countries' own
\* coordinates.
TransPacificPair(k) ==
    LET c1 == CountryNamed(returned[k].startCountry).coordinates
        c2 == CountryNamed(returned[k].endCountry).coordinates
    IN  isTransPacificRoute(c1.lng, c2.lng, c1.lat, c2.lat)

\* A longitude of returned[k] is not its country's own: the pair loop
\* unwrapped it.
Unwrapped(k) ==
    \/ returned[k].startLng # CountryNamed(returned[k].startCountry).coordinates.lng
    \/ returned[k].endLng # CountryNamed(returned[k].endCountry).coordinates.lng

\* C26 (as claimed): the longitudes recorded for a trans-Pacific pair after
\* unwrapping are at most 180 degrees apart.
C26_ContinuousPacificRoute ==
    lastOp[1] = "generateConnections" =>
        \A k \in 1..Len(returned) :
            (TransPacificPair(k) /\ Unwrapped(k)) =>
                Abs(returned[k].endLng - returned[k].startLng) <= 180

\* C27: every connection carries the latitudes of its two countries, and
\* each longitude is the country's own or that one shifted by exactly 360
\* degrees; one is shifted only for a trans-Pacific pair whose longitudes
\* are more than 180 degrees apart, and never both.
C27_LongitudeOwnOrShifted ==
    lastOp[1] = "generateConnections" =>
        \A k \in 1..Len(returned) :
            LET c1 == CountryNamed(returned[k].startCountry).coordinates
                c2 == CountryNamed(returned[k].endCountry).coordinates
                startShifted == returned[k].startLng # c1.lng
                endShifted == returned[k].endLng # c2.lng
            IN  /\ returned[k].startLat = c1.lat
                /\ returned[k].endLat = c2.lat
                /\ returned[k].startLng \in {c1.lng, c1.lng - 360, c1.lng + 360}
                /\ returned[k].endLng \in {c2.lng, c2.lng - 360, c2.lng + 360}
                /\ (startShifted \/ endShifted) =>
                       (TransPacificPair(k) /\ Abs(c2.lng - c1.lng) > 180)
                /\ ~(startShifted /\ endShifted)

C27_Witness ==
    /\ lastOp[1] = "generateConnections"
    /\ Len(returned) = 2
    /\ returned[1].startCountry = "Japan" /\ returned[1].endCountry = "Peru"
    /\ returned[1].startLng = 138 /\ returned[1].endLng = -436
    /\ returned[2].startCountry = "Japan" /\ returned[2].endCountry = "Samoa"
    /\ returned[2].endLng = -172

\* C28 (as claimed): the renderer gives every connection of a trans-Pacific
\* pair, unwrapped or not, the trans-Pacific arc altitude 0.3.
C28_AltitudeFollowsGenerator ==
    lastOp[1] = "generateConnections" =>
        \A k \in 1..Len(returned) :
            TransPacificPair(k) => arcAltitude(returned[k]) = 30

\* The names of the first n records of the dataset, in dataset order.
DatasetPrefix(n) == [ i \in 1..n |-> countryData[i].name ]

\* C29: every tick of the marker reveal that binds points binds the prefix
\* of the dataset one record longer than the prefix of the tick before; the
\* arc reveal is started only by the tick that finds the prefix to be the
\* whole dataset, and never runs beside the marker reveal; the arc fade-in
\* is started only by the tick of the arc reveal that finds every initial
\* connection revealed, and never runs beside either reveal.
C29_RevealsInOrder ==
    /\ [][ (lastOp'[1] = "pointsTick" /\ pointsInterval' # Off) =>
             /\ pointsInterval' = pointsInterval + 1
             /\ pointsInterval' <= Len(countryData)
             /\ pointsData' = DatasetPrefix(pointsInterval') ]_vars
    /\ [][ (arcsInterval = Off /\ arcsInterval' # Off) =>
             /\ lastOp'[1] = "pointsTick"
             /\ pointsInterval = Len(countryData)
             /\ pointsInterval' = Off
             /\ arcsInterval' = 0 ]_vars
    /\ [][ (lastOp'[1] = "arcsTick" /\ arcsInterval' # Off) =>
             /\ arcsInterval' = arcsInterval + 1
             /\ arcsInterval' <= arcsDataLength
             /\ arcsData'.shown = arcsInterval' ]_vars
    /\ [][ (arcOpacityMultiplier = Tiny /\ arcOpacityMultiplier' # Tiny) =>
             /\ lastOp'[1] = "arcsTick"
             /\ arcsInterval = arcsDataLength
             /\ arcsInterval' = Off ]_vars
    /\ [](arcsInterval # Off => pointsInterval = Off)
    /\ []((fadeFrame \/ arcOpacityMultiplier # Tiny) =>
            (pointsInterval = Off /\ arcsInterval = Off))

C29_Witness ==
    /\ lastOp[1] = "arcsTick"
    /\ fadeFrame
    /\ arcsDataLength = MaxArcs
    /\ arcsData.shown = MaxArcs
    /\ Len(countryData) = 3
    /\ pointsData = DatasetPrefix(3)

\* C30: from the start of the loading intro the arc-opacity multiplier
\* eventually is 1 and stays 1 for good, whatever the number of initial
\* connections (none included) and whatever the user clicks meanwhile; once
\* it is 1 no step changes it, and every value it takes is its value at load
\* (0.001) or a progress between 0 and 1.
C30_FadeInCompletes ==
    /\ <>[]FadeInComplete
    /\ [][FadeInComplete => FadeInComplete']_vars
    /\ [](arcOpacityMultiplier = Tiny \/ arcOpacityMultiplier \in 0..FadeSteps)

C30_Witness ==
    /\ FadeInComplete
    /\ arcsDataLength = 0
    /\ activeCategory # Null
    /\ ~fadeFrame

\* Every arc of the list bound to the arc layer joins two countries of the
\* enabled set: the bound list is empty, or it was generated for active
\* countries that are all enabled now.
ArcsWithinEnabled ==
    (arcsData.made /\ arcsData.shown # 0) => arcsData.active \subseteq enabledCountries

\* C31: if the enabled set stops changing, then from some point on every
\* arc bound to the renderer has both endpoints in the enabled set.
C31_ArcsConverge ==
    \/ []<><<enabledCountries' # enabledCountries>>_vars
    \/ <>[]ArcsWithinEnabled

\* A step of one of the panel's handlers that change the selection.
IsMutation(op) ==
    op[1] \in { "selectCategory", "deselectCategory", "toggleCountry",
                "selectAllCountries", "deselectAllCountries" }

\* The names of the enabled countries of the dataset, in dataset order.
EnabledRecords ==
    [ i \in 1..Len(activeCountries(countryData, enabledCountries)) |->
        activeCountries(countryData, enabledCountries)[i].name ]

\* C36: if the mutations of the panel come to an end, then from some point
\* on the points bound to the renderer are exactly the records of the
\* enabled countries.
C36_PointsConverge ==
    \/ []<><<IsMutation(lastOp')>>_vars
    \/ <>[](pointsData = EnabledRecords)

\* C32: a frame of the flight leaves the camera altitude as it found it;
\* selecting lone_wolf on a dataset with a count==1 country starts the
\* 1500 ms transition to altitude 1.3 and moves nothing yet; the altitude
\* changes only when a camera transition reaches its target or the user
\* zooms.
C32_FlightKeepsAltitude ==
    /\ [][ lastOp'[1] = "animate" => altitude' = altitude ]_vars
    /\ [][ (lastOp' = << "selectCategory", "lone_wolf" >>
             /\ Len(loneWolfCountries(countryData)) > 0) =>
              /\ povTransition' = 1500
              /\ povAltitude' = initialAltitude
              /\ altitude' = altitude ]_vars
    /\ [][ altitude' # altitude =>
              lastOp'[1] \in {"povTransitionEnd", "canvasInput"} ]_vars

C32_Witness ==
    /\ lastOp[1] = "animate"
    /\ activeCategory = "lone_wolf"
    /\ altitude \in ZoomAltitudes

\* C33: a check that finds the globe not ready, or throws, sets the 100 ms
\* timer again and leaves the flag alone; a check that finds it ready sets
\* the flag and no timer; once the flag is set it stays set, no poll timer
\* is pending and a tick of the quickCheck interval clears the interval;
\* and once the renderer is ready the poll timer and the quickCheck
\* interval are eventually gone for good.
C33_PollTerminates ==
    /\ [][ (lastOp'[1] = "checkGlobeReady" /\ lastOp'[2] # "ready") =>
              (pollTimer' /\ globeReady' = globeReady) ]_vars
    /\ [][ lastOp' = << "checkGlobeReady", "ready" >> =>
              (globeReady' /\ ~pollTimer') ]_vars
    /\ [][ (lastOp'[1] = "quickCheck" /\ globeReady) => ~quickCheck' ]_vars
    /\ [][ globeReady => globeReady' ]_vars
    /\ [](globeReady => ~pollTimer)
    /\ (rendererReady ~> [](globeReady /\ ~pollTimer /\ ~quickCheck))

C33_Witness ==
    /\ lastOp[1] = "quickCheck"
    /\ globeReady
    /\ ~pollTimer
    /\ ~quickCheck

\* The call of addOrbitingAstronaut fails: the globe or the name is
\* missing, THREE is missing, no template comes back or there is no scene.
FailingCall(deps, country) ==
    \/ ~deps.globe
    \/ country.name = ""
    \/ ~deps.THREE
    \/ deps.template = "null"
    \/ ~sceneAvailable

IsThrow(call) == call = "throw"

C35_AutoRotateOffOnlyInFlight ==
    /\ ((flightTimers = << >> /\ frameCallbacks = {}) => autoRotate)
    /\ (frameCallbacks # {} => ~autoRotate)

\* C37 (as claimed): in every state the orbiter registry, and the scene with
\* it, holds an orbiter only if the active category is lone_wolf.
C37_OrbitersOnlyUnderLoneWolf ==
    (astronautOrbiters # {} \/ scene # {}) => activeCategory = "lone_wolf"

\* C37 (amended): the registry or the scene holds an orbiter under another
\* category, or none, only while a 700 ms timer of updateVisualization is
\* pending; the callback of that timer, run under a category other than
\* lone_wolf, leaves both empty.
C37_OrbitersOutliveCategoryUntilTimer ==
    /\ []((astronautOrbiters # {} \/ scene # {}) =>
            (activeCategory = "lone_wolf" \/ vizTimers # << >>))
    /\ [][ (lastOp'[1] = "orbitersTimer" /\ activeCategory # "lone_wolf") =>
              (astronautOrbiters' = {} /\ scene' = {}) ]_vars

C37_Witness ==
    /\ lastOp = << "deselectCategory", "lone_wolf" >>
    /\ activeCategory = Null
    /\ OrbiterNames = {"Canada", "Mexico"}
    /\ scene = RegistryPivots
    /\ Len(vizTimers) = 1

\* C38: while the 2000 ms timer of the latest showCountryInfo call is
\* pending (the timers fire in the order they were set, so while any is
\* pending) the overlay is shown.
C38_OverlayShownForFullDelay == hideTimers > 0 => countryInfoOverlay

====
